---- MODULE Spec2Model ----
(***************************************************************************)
(* Task lifecycle of the lecture-notes service: the submission API         *)
(* (src/api_function/main.py), the queue worker and its stage pipeline     *)
(* (src/worker_function/main.py), the task records kept as objects         *)
(* tasks/{id}.json in the blob store, and the message queue between them.  *)
(***************************************************************************)
EXTENDS Integers, Sequences, FiniteSets, TLC

\* ---------------------------------------------------------------- bounds
MaxTasks == 1        \* task ids that uuid4 hands out
MaxWorkers == 1      \* worker invocations that can run at the same time
MaxDeliveries == 2   \* messages handed to workers over a behaviour
MaxFaults == 1       \* storage calls of update_task_status that raise
MaxHours == 1        \* times the retention period elapses
MaxOverlap == 2      \* worker invocations whose runs of one task overlap
MaxBatch == 2        \* messages a queue trigger hands to one invocation

TaskIds == 1..MaxTasks
Workers == 1..MaxWorkers

\* ------------------------------------------------- values of the records
Absent == "Absent"   \* the key is not in the dict
None == "None"       \* Python None
Raised == "raised"   \* the call raised instead of returning
NoTime == 0          \* no timestamp stored under the key

\* Python truthiness of the values a field can hold
Truthy(v) == v \notin {Absent, None, ""}

\* the URL upload_to_storage / upload_text_to_storage / save_pdf_to_storage
\* build for an object key: https://storage.yandexcloud.net/{bucket}/{key}
FileUrl(prefix, task_id) == [prefix |-> prefix, id |-> task_id]
NoUrl == [prefix |-> None, id |-> 0]
AbsentUrl == [prefix |-> Absent, id |-> 0]
TruthyUrl(u) == u \notin {NoUrl, AbsentUrl}

\* inputs of a submit request
Titles == {Absent, "", " ", "Intro"}
VideoUrls == {Absent, "", "https://example.com/v.mp4", "https://disk.yandex.ru/d/abc"}

\* re.match(r'https://(disk\.yandex\.[a-z]+|...|yadi\.sk)/(d|i)/', url)
IsYandexDiskLink(url) == url = "https://disk.yandex.ru/d/abc"

VARIABLES
  store,     \* tasks/{id}.json objects: a function from the stored ids to Task
  objs,      \* the other objects of the bucket, as keys <<prefix, task_id>>
  old,       \* the objects (<<prefix, task_id>>) last modified before the cutoff
  hours,     \* how often the retention period has elapsed
  faults,    \* how many storage calls of update_task_status have raised
  msgs,      \* the queue: a function from the queued task ids to the body
  queued,    \* the task ids send_message has accepted a message for
  hidden,    \* the queued messages inside their visibility timeout
  nextId,    \* the next task id uuid4 returns
  clock,     \* datetime.now(), advanced by every delivery
  wk,        \* per worker invocation: position and locals of handler/process_task
  pend,      \* per worker: the update_task_status call between its get and put
  req,       \* the API request handled in the last step
  resp       \* the response of the API request handled in the last step

vars ==
  <<store, objs, old, hours, faults, msgs, queued, hidden, nextId, clock, wk, pend,
    req, resp>>

\* ------------------------------------------------------------ task entity
\* the task dict handle_submit_task builds
NewTask(task_id, title, video_url, now) ==
  [task_id |-> task_id, title |-> title, video_url |-> video_url,
   description |-> "", status |-> "processing", created_at |-> now,
   progress |-> 10,
   status_message |-> Absent, mp3_url |-> AbsentUrl, processed_at |-> NoTime,
   video_duration |-> Absent, transcription |-> Absent,
   abstract_url |-> AbsentUrl, pdf_url |-> AbsentUrl]

\* the result dict of update_task_status: keys is the set of keys it holds
NoResult ==
  [keys |-> {}, mp3_url |-> NoUrl, processed_at |-> NoTime,
   video_duration |-> None, transcription |-> None,
   abstract_url |-> NoUrl, pdf_url |-> NoUrl]

\* mutant of DictUpdate: the result fields are replaced as a whole, and a
\* field the result does not hold is removed from the record
DictUpdateReplaces(task_data, result) ==
  [task_data EXCEPT
     !.mp3_url = IF "mp3_url" \in result.keys THEN result.mp3_url ELSE AbsentUrl,
     !.processed_at = IF "processed_at" \in result.keys THEN result.processed_at ELSE NoTime,
     !.video_duration = IF "video_duration" \in result.keys THEN result.video_duration ELSE Absent,
     !.transcription = IF "transcription" \in result.keys THEN result.transcription ELSE Absent,
     !.abstract_url = IF "abstract_url" \in result.keys THEN result.abstract_url ELSE AbsentUrl,
     !.pdf_url = IF "pdf_url" \in result.keys THEN result.pdf_url ELSE AbsentUrl]

\* task_data.update(result)
DictUpdate(task_data, result) ==
  [task_data EXCEPT
     !.mp3_url = IF "mp3_url" \in result.keys THEN result.mp3_url ELSE @,
     !.processed_at = IF "processed_at" \in result.keys THEN result.processed_at ELSE @,
     !.video_duration = IF "video_duration" \in result.keys THEN result.video_duration ELSE @,
     !.transcription = IF "transcription" \in result.keys THEN result.transcription ELSE @,
     !.abstract_url = IF "abstract_url" \in result.keys THEN result.abstract_url ELSE @,
     !.pdf_url = IF "pdf_url" \in result.keys THEN result.pdf_url ELSE @]

\* mutant of ApplyUpdate: the progress of the update is not stored
ApplyUpdateKeepsProgress(task_data, status, progress, message, result) ==
  LET t == [task_data EXCEPT !.status = status, !.status_message = message]
  IN IF result.keys # {} THEN DictUpdate(t, result) ELSE t

\* mutant of ApplyUpdate: the status message is stored as the description
ApplyUpdateIntoDescription(task_data, status, progress, message, result) ==
  LET t == [task_data EXCEPT !.status = status, !.progress = progress,
                             !.description = message]
  IN IF result.keys # {} THEN DictUpdate(t, result) ELSE t

\* mutant of ApplyUpdate: the status of the update is not stored
ApplyUpdateKeepsStatus(task_data, status, progress, message, result) ==
  LET t == [task_data EXCEPT !.progress = progress, !.status_message = message]
  IN IF result.keys # {} THEN DictUpdate(t, result) ELSE t

\* update_task_status, between the read and the write of the record
ApplyUpdate(task_data, status, progress, message, result) ==
  LET t == [task_data EXCEPT !.status = status, !.progress = progress,
                             !.status_message = message]
  IN IF result.keys # {} THEN DictUpdate(t, result) ELSE t

\* ------------------------------------------------------------- worker state
\* the locals of one invocation of handler; sweep is the outcome of its
\* cleanup_old_files, tick tells an invocation from the one before it, poll
\* is where transcribe_audio_speechkit stands and attempt counts the status
\* checks of its loop
IdleWorker ==
  [pc |-> "idle", mode |-> "none", task |-> 0, batch |-> <<>>,
   video_path |-> None, mp3_path |-> None, exc |-> None, abstract |-> None,
   mp3_url |-> NoUrl, transcription |-> None, abstract_url |-> NoUrl,
   pdf_url |-> NoUrl, ret |-> FALSE, deleted |-> FALSE, written |-> TRUE,
   last |-> 10, sweep |-> "none", tick |-> 0, poll |-> "none", attempt |-> 0]

Init ==
  /\ store = <<>>
  /\ objs = {}
  /\ old = {}
  /\ hours = 0
  /\ faults = 0
  /\ msgs = <<>>
  /\ queued = {}
  /\ hidden = {}
  /\ nextId = 1
  /\ clock = 1
  /\ wk = [w \in Workers |-> IdleWorker]
  /\ pend = [w \in Workers |-> <<>>]
  /\ req = <<>>
  /\ resp = <<>>

\* --------------------------------------------------------------- blob store
TaskKey(task_id) == <<"tasks", task_id>>
AllKeys == {TaskKey(t) : t \in DOMAIN store} \cup objs
Restrict(f, S) == [x \in S |-> f[x]]

\* mutant of PutTask: the object is written under another key than tasks/{task_id}.json
PutTaskOtherKey(st, task_id, task_data) == ((task_id + 1) :> task_data) @@ st

\* put_object(Key='tasks/{task_id}.json', Body=json.dumps(task_data))
PutTask(st, task_id, task_data) == (task_id :> task_data) @@ st

\* more than max_age_hours pass without any write: every object of the
\* bucket is now older than the cutoff of cleanup_old_files
HourPasses ==
  /\ hours < MaxHours
  /\ hours' = hours + 1
  /\ old' = AllKeys
  /\ req' = <<>>
  /\ resp' = <<>>
  /\ UNCHANGED <<store, objs, faults, msgs, queued, hidden, nextId, clock, wk, pend>>

\* mutant of SweptKeys: the record of a task that is still processing is kept
SweptKeysSparesProcessing(failed) ==
  {k \in old : /\ k[1] \notin failed
               /\ ~(k[1] = "tasks" /\ k[2] \in DOMAIN store
                     /\ store[k[2]].status = "processing")}

\* cleanup_old_files: every prefix whose listing and delete_objects succeed
\* loses its objects with LastModified < cutoff_time; an exception inside a
\* prefix is logged and the prefix is skipped
SweptKeys(failed) == {k \in old : k[1] \notin failed}
CleanupStore(failed) ==
  Restrict(store, {t \in DOMAIN store : TaskKey(t) \notin SweptKeys(failed)})
CleanupObjs(failed) == objs \ SweptKeys(failed)
CleanupOld(failed) == old \ SweptKeys(failed)

\* ------------------------------------------------------------ submission API
LookupOutcomes == {"video", "not_video", "non200", "network_error", "error"}

\* mutant of ValidateYandexDiskLink: the file name is not checked
ValidateYandexDiskLinkAnyFile(video_url, lookup) ==
  IF ~IsYandexDiskLink(video_url)
    THEN [is_valid |-> TRUE, is_yandex_disk |-> FALSE, error |-> None]
  ELSE IF lookup \in {"video", "not_video"}
    THEN [is_valid |-> TRUE, is_yandex_disk |-> TRUE, error |-> None]
  ELSE [is_valid |-> FALSE, is_yandex_disk |-> TRUE,
        error |-> "Invalid or expired Yandex Disk link"]

\* validate_yandex_disk_link
ValidateYandexDiskLink(video_url, lookup) ==
  IF ~IsYandexDiskLink(video_url)
    THEN [is_valid |-> TRUE, is_yandex_disk |-> FALSE, error |-> None]
  ELSE IF lookup = "video"
    THEN [is_valid |-> TRUE, is_yandex_disk |-> TRUE, error |-> None]
  ELSE IF lookup = "not_video"
    THEN [is_valid |-> FALSE, is_yandex_disk |-> TRUE,
          error |-> "File is not a video file"]
  ELSE IF lookup = "non200"
    THEN [is_valid |-> FALSE, is_yandex_disk |-> TRUE,
          error |-> "Invalid or expired Yandex Disk link"]
  ELSE IF lookup = "network_error"
    THEN [is_valid |-> FALSE, is_yandex_disk |-> TRUE,
          error |-> "Network error while validating link"]
  ELSE [is_valid |-> FALSE, is_yandex_disk |-> TRUE,
        error |-> "Unexpected error during validation"]

\* a submit request: the body and the outcomes of the calls it makes
SubmitRequest(title, video_url, lookup, saveOk, sendOk) ==
  [op |-> "submit", title |-> title, video_url |-> video_url, lookup |-> lookup,
   saveOk |-> saveOk, sendOk |-> sendOk]

\* mutant of MissingField: only the title is checked
MissingFieldTitleOnly(title, video_url) == ~Truthy(title)
\* if not title or not video_url
MissingField(title, video_url) == ~Truthy(title) \/ ~Truthy(video_url)

\* mutant of SaveTaskToStorage: the exception of put_object is not reported
SaveTaskToStorageAlwaysTrue(saveOk) == TRUE
\* save_task_to_storage: True, or False when put_object raised
SaveTaskToStorage(saveOk) == saveOk

\* mutant of SendMessage: the message is queued although send_message raised
SendMessageAlways(queue, task, sendOk) == (task.task_id :> task) @@ queue
\* sqs send_message(MessageBody=json.dumps(task))
SendMessage(queue, task, sendOk) ==
  IF sendOk THEN (task.task_id :> task) @@ queue ELSE queue

Response(op, code, error, task_id, task, details) ==
  [op |-> op, statusCode |-> code, error |-> error, task_id |-> task_id,
   task |-> task, details |-> details]

\* handle_submit_task
SubmitTask(title, video_url, lookup, saveOk, sendOk) ==
  LET validation_result == ValidateYandexDiskLink(video_url, lookup)
      task_id == nextId
      task == NewTask(task_id, title, video_url, clock)
  IN
  /\ nextId <= MaxTasks
  /\ req' = <<SubmitRequest(title, video_url, lookup, saveOk, sendOk)>>
  /\ UNCHANGED <<objs, hours, faults, hidden, clock, wk, pend>>
  /\ IF MissingField(title, video_url)
       THEN /\ resp' = <<Response("submit", 400,
                          "Please provide both title and video URL", 0, <<>>, None)>>
            /\ UNCHANGED <<store, old, msgs, queued, nextId>>
     ELSE IF ~validation_result.is_valid
       THEN /\ resp' = <<Response("submit", 400, "Invalid video URL", 0, <<>>,
                          validation_result.error)>>
            /\ UNCHANGED <<store, old, msgs, queued, nextId>>
     ELSE /\ nextId' = nextId + 1
          /\ IF SaveTaskToStorage(saveOk)
               THEN /\ store' = IF saveOk THEN PutTask(store, task_id, task) ELSE store
                    /\ old' = IF saveOk THEN old \ {TaskKey(task_id)} ELSE old
                    /\ msgs' = SendMessage(msgs, task, sendOk)
                    /\ queued' = IF sendOk THEN queued \cup {task_id} ELSE queued
                    /\ resp' = IF sendOk
                                 THEN <<Response("submit", 200, None, task_id,
                                                 <<task>>, None)>>
                                 ELSE <<Response("submit", 500,
                                         "Task saved but failed to queue for processing",
                                         0, <<>>, None)>>
               ELSE /\ resp' = <<Response("submit", 500,
                                  "Failed to save task to storage", 0, <<>>, None)>>
                    /\ UNCHANGED <<store, old, msgs, queued>>

\* ------------------------------------------------------------------- queue
\* the visibility timeout of a received message expires (VisibilityTimeout=3600)
VisibilityTimeout(task_id) ==
  /\ task_id \in hidden
  /\ hidden' = hidden \ {task_id}
  /\ req' = <<>>
  /\ resp' = <<>>
  /\ UNCHANGED <<store, objs, old, hours, faults, msgs, queued, nextId, clock, wk, pend>>

\* sqs delete_message
DeleteMessages(ids) == Restrict(msgs, DOMAIN msgs \ ids)

\* ------------------------------------------------------- worker: handler
\* the prefixes whose failure makes a difference: those with an old object
SweepChoices == SUBSET {k[1] : k \in old}

\* cleanup_old_files(max_age_hours=1) at the start of handler; failed holds
\* the prefixes whose listing or delete_objects raises
Cleanup(failed) ==
  /\ store' = CleanupStore(failed)
  /\ objs' = CleanupObjs(failed)
  /\ old' = CleanupOld(failed)

\* what the log of cleanup_old_files shows: an error for some prefix or none
SweepResult(failed) == IF failed = {} THEN "ok" ELSE "failed"

\* handler, polling branch, get_task_from_queue returns (None, None): the
\* queue is empty or receive_message raised
InvokeIdle(w) ==
  /\ wk[w].pc \in {"idle", "done"}
  /\ \E failed \in SweepChoices :
       /\ Cleanup(failed)
       /\ wk' = [wk EXCEPT ![w] = [IdleWorker EXCEPT !.sweep = SweepResult(failed),
                                                      !.tick = 1 - wk[w].tick]]
  /\ req' = <<>>
  /\ resp' = <<>>
  /\ UNCHANGED <<hours, faults, msgs, queued, hidden, nextId, clock, pend>>

\* mutant of InvokePoll: the invocation receives its message without running
\* cleanup_old_files
InvokePollSkipsSweep(w, task_id) ==
  /\ wk[w].pc \in {"idle", "done"}
  /\ clock <= MaxDeliveries
  /\ task_id \in DOMAIN msgs \ hidden
  /\ wk' = [wk EXCEPT ![w] = [IdleWorker EXCEPT !.pc = "start", !.mode = "poll",
                                                 !.task = msgs[task_id].task_id,
                                                 !.tick = 1 - wk[w].tick]]
  /\ hidden' = hidden \cup {task_id}
  /\ clock' = clock + 1
  /\ req' = <<>>
  /\ resp' = <<>>
  /\ UNCHANGED <<store, objs, old, hours, faults, msgs, queued, nextId, pend>>

\* handler, polling branch: cleanup_old_files, then get_task_from_queue
\* returns the body and receipt handle of one visible message
InvokePoll(w, task_id) ==
  /\ wk[w].pc \in {"idle", "done"}
  /\ clock <= MaxDeliveries
  /\ task_id \in DOMAIN msgs \ hidden
  /\ \E failed \in SweepChoices :
       /\ Cleanup(failed)
       /\ wk' = [wk EXCEPT ![w] = [IdleWorker EXCEPT !.pc = "start", !.mode = "poll",
                                                      !.task = msgs[task_id].task_id,
                                                      !.sweep = SweepResult(failed),
                                                      !.tick = 1 - wk[w].tick]]
  /\ hidden' = hidden \cup {task_id}
  /\ clock' = clock + 1
  /\ req' = <<>>
  /\ resp' = <<>>
  /\ UNCHANGED <<hours, faults, msgs, queued, nextId, pend>>

\* the batches a queue trigger can hand to one invocation: one or two
\* distinct visible messages
BatchIds(batch) == {batch[i] : i \in 1..Len(batch)}
BatchTasks == 1..MaxBatch
AllBatches ==
  {<<t>> : t \in BatchTasks} \cup {b \in BatchTasks \X BatchTasks : b[1] # b[2]}
Batches == {b \in AllBatches : BatchIds(b) \subseteq DOMAIN msgs \ hidden}

\* handler, 'messages' in event: cleanup_old_files, then process_task of the
\* first message only (both branches of the loop body return)
InvokeTrigger(w, batch) ==
  /\ wk[w].pc \in {"idle", "done"}
  /\ clock <= MaxDeliveries
  /\ batch \in Batches
  /\ \E failed \in SweepChoices :
       /\ Cleanup(failed)
       /\ wk' = [wk EXCEPT ![w] = [IdleWorker EXCEPT !.pc = "start",
                                                      !.mode = "trigger",
                                                      !.task = msgs[batch[1]].task_id,
                                                      !.batch = batch,
                                                      !.sweep = SweepResult(failed),
                                                      !.tick = 1 - wk[w].tick]]
  /\ hidden' = hidden \cup BatchIds(batch)
  /\ clock' = clock + 1
  /\ req' = <<>>
  /\ resp' = <<>>
  /\ UNCHANGED <<hours, faults, msgs, queued, nextId, pend>>

\* delete_message_from_queue: a failure of delete_message is logged
DeleteMessageFromQueue(receipt_handle, ackOk) ==
  IF ackOk
    THEN /\ msgs' = DeleteMessages({receipt_handle})
         /\ hidden' = hidden \ {receipt_handle}
    ELSE UNCHANGED <<msgs, hidden>>

\* handler after process_task returned success: in the polling branch the
\* message is deleted only when success is true; in the trigger branch the
\* handler leaves the queue alone and the trigger either removes its batch
\* or lets it become visible again
HandlerDeletes(mode, success) == mode = "poll" /\ success

\* mutant of Return: the loop over event['messages'] goes on to the next
\* message instead of returning
ReturnNextMessage(w, ackOk) ==
  /\ wk[w].pc = "ret"
  /\ pend[w] = <<>>
  /\ req' = <<>>
  /\ resp' = <<>>
  /\ UNCHANGED <<store, objs, old, hours, faults, queued, nextId, clock, pend>>
  /\ IF wk[w].mode = "trigger" /\ Len(wk[w].batch) > 1
       THEN /\ wk' = [wk EXCEPT ![w] = [IdleWorker EXCEPT !.pc = "start",
                                                          !.mode = "trigger",
                                                          !.task = wk[w].batch[2],
                                                          !.batch = Tail(wk[w].batch)]]
            /\ UNCHANGED <<msgs, hidden>>
       ELSE /\ IF HandlerDeletes(wk[w].mode, wk[w].ret)
                 THEN DeleteMessageFromQueue(wk[w].task, ackOk)
               ELSE IF wk[w].mode = "trigger" /\ ackOk
                 THEN /\ msgs' = DeleteMessages(BatchIds(wk[w].batch))
                      /\ hidden' = hidden \ BatchIds(wk[w].batch)
               ELSE UNCHANGED <<msgs, hidden>>
            /\ wk' = [wk EXCEPT ![w] = [IdleWorker EXCEPT !.pc = "done",
                                                          !.mode = wk[w].mode,
                                                          !.task = wk[w].task,
                                                          !.ret = wk[w].ret,
                                                          !.deleted =
                                                            HandlerDeletes(wk[w].mode,
                                                                           wk[w].ret)]]

Return(w, ackOk) ==
  /\ wk[w].pc = "ret"
  /\ pend[w] = <<>>
  /\ IF HandlerDeletes(wk[w].mode, wk[w].ret)
       THEN DeleteMessageFromQueue(wk[w].task, ackOk)
     ELSE IF wk[w].mode = "trigger" /\ ackOk
       THEN /\ msgs' = DeleteMessages(BatchIds(wk[w].batch))
            /\ hidden' = hidden \ BatchIds(wk[w].batch)
     ELSE UNCHANGED <<msgs, hidden>>
  /\ wk' = [wk EXCEPT ![w] = [IdleWorker EXCEPT !.pc = "done", !.mode = wk[w].mode,
                                                 !.task = wk[w].task,
                                                 !.ret = wk[w].ret,
                                                 !.deleted = HandlerDeletes(wk[w].mode,
                                                                            wk[w].ret)]]
  /\ req' = <<>>
  /\ resp' = <<>>
  /\ UNCHANGED <<store, objs, old, hours, faults, queued, nextId, clock, pend>>

\* ------------------------------------------- worker: update_task_status
\* get_object of the record and the arguments of the call; the call is
\* dropped (<<>>) when the object is missing or the read raises
GetForUpdate(task_id, status, progress, message, result, readOk) ==
  IF task_id \in DOMAIN store /\ readOk
    THEN <<[task_data |-> store[task_id], status |-> status,
            progress |-> progress, message |-> message, result |-> result]>>
    ELSE <<>>

\* a call of update_task_status up to its get_object, made by the worker
\* whose locals are l
CallStatus(w, l, status, progress, message, result, readOk) ==
  LET p == GetForUpdate(l.task, status, progress, message, result, readOk) IN
  /\ readOk \/ faults < MaxFaults
  /\ faults' = IF readOk THEN faults ELSE faults + 1
  /\ pend' = [pend EXCEPT ![w] = p]
  /\ wk' = [wk EXCEPT ![w] = [l EXCEPT !.written = IF p = <<>> THEN FALSE ELSE @]]
  /\ req' = <<>>
  /\ resp' = <<>>
  /\ UNCHANGED <<store, hours, msgs, queued, hidden, nextId, clock>>

\* put_object of the merged record; an exception of the write is logged
PutStatus(w, writeOk) ==
  /\ pend[w] # <<>>
  /\ writeOk \/ faults < MaxFaults
  /\ faults' = IF writeOk THEN faults ELSE faults + 1
  /\ LET u == pend[w][1]
         task_data == ApplyUpdate(u.task_data, u.status, u.progress, u.message,
                                  u.result)
     IN IF writeOk
          THEN /\ store' = PutTask(store, wk[w].task, task_data)
               /\ old' = old \ {TaskKey(wk[w].task)}
               /\ wk' = [wk EXCEPT ![w].written = TRUE, ![w].last = u.progress]
          ELSE /\ wk' = [wk EXCEPT ![w].written = FALSE]
               /\ UNCHANGED <<store, old>>
  /\ pend' = [pend EXCEPT ![w] = <<>>]
  /\ req' = <<>>
  /\ resp' = <<>>
  /\ UNCHANGED <<objs, hours, msgs, queued, hidden, nextId, clock>>

\* ------------------------------------------------ worker: process_task
\* progress written with each status update of process_task
ProgressDownloading == 10
ProgressConverting == 40
ProgressUploading == 80
ProgressTranscribing == 85
\* mutant of ProgressTranscriptionFailed: the value of the upload stage
ProgressTranscriptionFailedLow == ProgressUploading
ProgressTranscriptionFailed == 90
\* mutant of ProgressAbstract: the summarisation announces the progress of
\* the transcription
ProgressAbstractAsTranscribing == ProgressTranscribing

ProgressAbstract == 92
ProgressPdf == 95
ProgressCompleted == 100
ProgressFailed == 0

\* mutant of PathMissing: the check of the returned path is missing
PathMissingNever(path) == FALSE
\* if not video_path / if not mp3_path
PathMissing(path) == ~Truthy(path)
\* mutant of UploadMissing: the check of the returned URL is missing
UploadMissingNever(url) == FALSE
\* if not mp3_url
UploadMissing(url) == ~TruthyUrl(url)

\* put_object of an artifact under key: when it succeeds the object exists
\* with a fresh LastModified
PutObject(key, ok) ==
  /\ objs' = IF ok THEN objs \cup {key} ELSE objs
  /\ old' = IF ok THEN old \ {key} ELSE old

\* mutant of Begin: a task whose record is already completed is not run again
BeginSkipsCompleted(w, readOk) ==
  /\ wk[w].pc = "start"
  /\ pend[w] = <<>>
  /\ UNCHANGED <<objs, old>>
  /\ IF wk[w].task \in DOMAIN store /\ store[wk[w].task].status = "completed"
       THEN /\ wk' = [wk EXCEPT ![w].pc = "ret", ![w].ret = TRUE, ![w].sweep = "none",
                                ![w].tick = 0]
            /\ req' = <<>>
            /\ resp' = <<>>
            /\ UNCHANGED <<store, hours, faults, msgs, queued, hidden, nextId, clock, pend>>
       ELSE CallStatus(w, [wk[w] EXCEPT !.pc = "download", !.sweep = "none",
                                       !.tick = 0], "processing",
                       ProgressDownloading, "Downloading video...", NoResult, readOk)

\* process_task up to the first status update
Begin(w, readOk) ==
  /\ wk[w].pc = "start"
  /\ pend[w] = <<>>
  /\ UNCHANGED <<objs, old>>
  /\ CallStatus(w, [wk[w] EXCEPT !.pc = "download", !.sweep = "none",
                              !.tick = 0], "processing",
                ProgressDownloading, "Downloading video...", NoResult, readOk)

\* Step 1: download_video returns (video_path, temp_dir) or (None, None)
DownloadVideo(w, video_path, readOk) ==
  /\ wk[w].pc = "download"
  /\ pend[w] = <<>>
  /\ UNCHANGED <<objs, old>>
  /\ IF PathMissing(video_path)
       THEN CallStatus(w, [wk[w] EXCEPT !.pc = "ret", !.ret = FALSE,
                                        !.video_path = video_path],
                       "failed", ProgressFailed, "Failed to download video",
                       NoResult, readOk)
       ELSE CallStatus(w, [wk[w] EXCEPT !.pc = "convert", !.video_path = video_path],
                       "processing", ProgressConverting, "Converting to MP3...",
                       NoResult, readOk)

\* Step 2: convert_to_mp3 returns mp3_path or raises, and the exception
\* reaches the except clause of process_task
ConvertToMp3(w, mp3_path, readOk) ==
  /\ wk[w].pc = "convert"
  /\ pend[w] = <<>>
  /\ UNCHANGED <<objs, old>>
  /\ IF mp3_path = Raised
       THEN CallStatus(w, [wk[w] EXCEPT !.pc = "ret", !.ret = FALSE,
                                        !.exc = "MP3 conversion failed"],
                       "failed", ProgressFailed,
                       "Processing error: MP3 conversion failed", NoResult, readOk)
     ELSE IF PathMissing(mp3_path)
       THEN CallStatus(w, [wk[w] EXCEPT !.pc = "ret", !.ret = FALSE],
                       "failed", ProgressFailed, "Failed to convert to MP3",
                       NoResult, readOk)
     ELSE CallStatus(w, [wk[w] EXCEPT !.pc = "upload", !.mp3_path = mp3_path],
                     "processing", ProgressUploading, "Uploading MP3...",
                     NoResult, readOk)

\* upload_to_storage / upload_text_to_storage: the URL, or None when the
\* upload raised
UploadToStorage(prefix, task_id, ok) == IF ok THEN FileUrl(prefix, task_id) ELSE NoUrl

\* Step 3: upload of mp3/{task_id}.mp3
UploadMp3(w, ok, readOk) ==
  LET mp3_url == UploadToStorage("mp3", wk[w].task, ok) IN
  /\ wk[w].pc = "upload"
  /\ pend[w] = <<>>
  /\ PutObject(<<"mp3", wk[w].task>>, ok)
  /\ IF UploadMissing(mp3_url)
       THEN CallStatus(w, [wk[w] EXCEPT !.pc = "ret", !.ret = FALSE,
                                        !.mp3_url = mp3_url],
                       "failed", ProgressFailed, "Failed to upload MP3",
                       NoResult, readOk)
       ELSE CallStatus(w, [wk[w] EXCEPT !.pc = "transcribe", !.mp3_url = mp3_url],
                       "processing", ProgressTranscribing, "Transcribing audio...",
                       NoResult, readOk)

\* mutant of OnTranscriptionError: a transcription error fails the task
OnTranscriptionErrorFails ==
  [status |-> "failed", progress |-> ProgressFailed,
   message |-> "Transcription failed"]

\* except Exception around transcribe_audio_speechkit: the status update
\* written when the transcription raised
OnTranscriptionError ==
  [status |-> "processing", progress |-> ProgressTranscriptionFailed,
   message |-> "MP3 ready (transcription failed)"]

\* mutant of TaskResult: the transcription is stored even when there is none
TaskResultAlwaysTranscription(mp3_url, now, video_duration, transcription, abstract_url, pdf_url) ==
  [keys |-> {"mp3_url", "processed_at", "video_duration", "transcription"}
            \cup (IF TruthyUrl(abstract_url) THEN {"abstract_url"} ELSE {})
            \cup (IF TruthyUrl(pdf_url) THEN {"pdf_url"} ELSE {}),
   mp3_url |-> mp3_url, processed_at |-> now, video_duration |-> video_duration,
   transcription |-> transcription, abstract_url |-> abstract_url,
   pdf_url |-> pdf_url]

\* mutant of TaskResult: the abstract is reported only together with the PDF
TaskResultAbstractWithPdf(mp3_url, now, video_duration, transcription, abstract_url, pdf_url) ==
  [keys |-> {"mp3_url", "processed_at", "video_duration"}
            \cup (IF Truthy(transcription) THEN {"transcription"} ELSE {})
            \cup (IF TruthyUrl(pdf_url) THEN {"abstract_url", "pdf_url"} ELSE {}),
   mp3_url |-> mp3_url, processed_at |-> now, video_duration |-> video_duration,
   transcription |-> transcription, abstract_url |-> abstract_url,
   pdf_url |-> pdf_url]

\* task_result of Step 6
TaskResult(mp3_url, now, video_duration, transcription, abstract_url, pdf_url) ==
  [keys |-> {"mp3_url", "processed_at", "video_duration"}
            \cup (IF Truthy(transcription) THEN {"transcription"} ELSE {})
            \cup (IF TruthyUrl(abstract_url) THEN {"abstract_url"} ELSE {})
            \cup (IF TruthyUrl(pdf_url) THEN {"pdf_url"} ELSE {}),
   mp3_url |-> mp3_url, processed_at |-> now, video_duration |-> video_duration,
   transcription |-> transcription, abstract_url |-> abstract_url,
   pdf_url |-> pdf_url]

\* status_message of Step 6
CompletedMessage(transcription, pdf_url) ==
  IF TruthyUrl(pdf_url)
    THEN "Processing completed - PDF, MP3, transcription and abstract ready"
  ELSE IF Truthy(transcription)
    THEN "Processing completed - MP3 and transcription ready"
  ELSE "Processing completed - MP3 ready (transcription unavailable)"

\* Step 6: the call update_task_status(task_id, 'completed', 100, ...) made
\* with the locals l; get_video_duration returns a duration or None
CompleteTask(w, l, video_duration, readOk) ==
  CallStatus(w, [l EXCEPT !.pc = "ret", !.ret = TRUE], "completed",
             ProgressCompleted, CompletedMessage(l.transcription, l.pdf_url),
             TaskResult(l.mp3_url, clock, video_duration, l.transcription,
                        l.abstract_url, l.pdf_url),
             readOk)

Durations == {None, "duration"}

\* Step 4: transcribe_audio_speechkit returns the text, returns "" (no
\* chunks) or raises (missing key, failed upload, API error, timeout)
TranscribeOutcomes == {Raised, "", "text"}
Transcribe(w, outcome, video_duration, readOk) ==
  /\ wk[w].pc = "transcribe"
  /\ pend[w] = <<>>
  /\ UNCHANGED <<objs, old>>
  /\ IF outcome = Raised
       THEN CallStatus(w, [wk[w] EXCEPT !.pc = "finalize"],
                       OnTranscriptionError.status, OnTranscriptionError.progress,
                       OnTranscriptionError.message, NoResult, readOk)
     ELSE IF Truthy(outcome)
       THEN CallStatus(w, [wk[w] EXCEPT !.pc = "summarize", !.transcription = outcome],
                       "processing", ProgressAbstract,
                       "Generating lecture abstract...", NoResult, readOk)
     ELSE CompleteTask(w, [wk[w] EXCEPT !.transcription = outcome], video_duration,
                       readOk)

\* transcribe_audio_speechkit step by step. max_attempts of its polling loop
MaxAttempts == 360

\* before the loop: the key is read, the audio uploaded and the recognition
\* requested; a missing key, a failed upload, a non-200 answer or an answer
\* without an operation id raises
StartRecognition(w, started, video_duration, readOk) ==
  /\ wk[w].pc = "transcribe"
  /\ pend[w] = <<>>
  /\ wk[w].poll = "none"
  /\ IF started
       THEN /\ wk' = [wk EXCEPT ![w].poll = "polling", ![w].attempt = 0]
            /\ req' = <<>>
            /\ resp' = <<>>
            /\ UNCHANGED <<store, objs, old, hours, faults, msgs, queued, hidden,
                           nextId, clock, pend>>
       ELSE Transcribe(w, Raised, video_duration, readOk)

\* what one status check of the operation can bring: a status other than
\* 200, an operation not done yet, a done operation with an error, with no
\* chunks or with text, and a request that raises
StatusChecks == {"non200", "pending", "error", "raises", "empty", "text"}

\* mutant of CheckStatus: the loop makes one more pass than max_attempts
CheckStatusOneMore(w, check) ==
  /\ wk[w].pc = "transcribe"
  /\ pend[w] = <<>>
  /\ wk[w].poll = "polling"
  /\ wk[w].attempt <= MaxAttempts
  /\ wk' = [wk EXCEPT ![w].attempt = wk[w].attempt + 1,
                      ![w].poll = IF check \in {"non200", "pending"}
                                    THEN "polling" ELSE check]
  /\ req' = <<>>
  /\ resp' = <<>>
  /\ UNCHANGED <<store, objs, old, hours, faults, msgs, queued, hidden, nextId,
                 clock, pend>>

\* one pass of `for attempt in range(max_attempts)`: a non-200 status or an
\* operation that is not done sleeps and goes on, anything else leaves the
\* loop
CheckStatus(w, check) ==
  /\ wk[w].pc = "transcribe"
  /\ pend[w] = <<>>
  /\ wk[w].poll = "polling"
  /\ wk[w].attempt < MaxAttempts
  /\ wk' = [wk EXCEPT ![w].attempt = wk[w].attempt + 1,
                      ![w].poll = IF check \in {"non200", "pending"}
                                    THEN "polling" ELSE check]
  /\ req' = <<>>
  /\ resp' = <<>>
  /\ UNCHANGED <<store, objs, old, hours, faults, msgs, queued, hidden, nextId,
                 clock, pend>>

\* what transcribe_audio_speechkit hands to process_task once the loop is
\* left: the joined text, "" for no chunks, and an exception for an
\* operation error, a raising request and the timeout after the last pass
PollOutcome(poll) ==
  IF poll = "text" THEN "text" ELSE IF poll = "empty" THEN "" ELSE Raised

\* the loop is left, by return, by raise or because the range is used up,
\* and process_task goes on with the outcome
LeaveLoop(w, video_duration, readOk) ==
  /\ wk[w].poll \notin {"none", "polling"} \/
       (wk[w].poll = "polling" /\ wk[w].attempt = MaxAttempts)
  /\ Transcribe(w, PollOutcome(wk[w].poll), video_duration, readOk)

\* Step 6 after the status update of a failed transcription
Finalize(w, video_duration, readOk) ==
  /\ wk[w].pc = "finalize"
  /\ pend[w] = <<>>
  /\ UNCHANGED <<objs, old>>
  /\ CompleteTask(w, wk[w], video_duration, readOk)

\* mutant of ProcessTextWithGpt: without the fallback a failed call yields no
\* abstract
ProcessTextWithGptNoFallback(transcription, outcome) ==
  IF outcome = "ok" THEN "generated abstract" ELSE None

\* process_text_with_gpt: the generated abstract, or the fallback outline
\* when the key is missing, the call fails or the response is malformed
GptOutcomes == {"ok", "no_key", "non200", "malformed", Raised}
ProcessTextWithGpt(transcription, outcome) ==
  IF outcome = "ok" THEN "generated abstract" ELSE "fallback outline"

\* Step 5: abstract and its upload to abstracts/{task_id}.md
Summarize(w, gpt, uploadOk, video_duration, readOk) ==
  LET abstract == ProcessTextWithGpt(wk[w].transcription, gpt)
      abstract_url == UploadToStorage("abstracts", wk[w].task, uploadOk)
  IN
  /\ wk[w].pc = "summarize"
  /\ pend[w] = <<>>
  /\ PutObject(<<"abstracts", wk[w].task>>, Truthy(abstract) /\ uploadOk)
  /\ IF Truthy(abstract)
       THEN CallStatus(w, [wk[w] EXCEPT !.pc = "pdf", !.abstract = abstract,
                                        !.abstract_url = abstract_url],
                       "processing", ProgressPdf, "Generating PDF...", NoResult,
                       readOk)
       ELSE CompleteTask(w, [wk[w] EXCEPT !.abstract = abstract], video_duration,
                         readOk)

\* Step 5b: generate_pdf_notes and save_pdf_to_storage either return or
\* raise into the except clause of Step 5, which leaves pdf_url None
RenderPdf(w, generated, saved, video_duration, readOk) ==
  LET pdf_url == UploadToStorage("notes", wk[w].task, generated /\ saved) IN
  /\ wk[w].pc = "pdf"
  /\ pend[w] = <<>>
  /\ PutObject(<<"notes", wk[w].task>>, generated /\ saved)
  /\ CompleteTask(w, [wk[w] EXCEPT !.pdf_url = pdf_url], video_duration, readOk)

\* ------------------------------------------------- API: lookup and delete
\* the task ids a request can name: those uuid4 hands out and one more
RequestIds == 1..(MaxTasks + 1)

\* get_tasks_from_storage: {} when the listing raises; an object whose read
\* raises is left out
GetTasksFromStorage(listOk, unreadable) ==
  IF listOk THEN Restrict(store, DOMAIN store \ unreadable) ELSE <<>>

\* handle_task_status_lookup; details of the 404 body is available_tasks
HandleTaskStatusLookup(task_id, tasks) ==
  IF task_id \in DOMAIN tasks
    THEN Response("status", 200, None, task_id, <<tasks[task_id]>>, None)
    ELSE Response("status", 404, "Task not found", task_id, <<>>, DOMAIN tasks)

\* handle_download_transcription; details of the 200 answer is the
\* transcription the body ends with
HandleDownloadTranscription(task_id, tasks) ==
  IF task_id \notin DOMAIN tasks
    THEN Response("transcription", 404, "Task not found", task_id, <<>>, None)
  ELSE IF ~Truthy(tasks[task_id].transcription)
    THEN Response("transcription", 404, "No transcription available for this task",
                  task_id, <<>>, None)
  ELSE Response("transcription", 200, None, task_id, <<>>,
                tasks[task_id].transcription)

\* mutant of HandleDownloadPdf: the PDF is served only for completed tasks
HandleDownloadPdfWhenCompleted(task_id, tasks) ==
  IF task_id \notin DOMAIN tasks
    THEN Response("pdf", 404, "Task not found", task_id, <<>>, None)
  ELSE IF ~TruthyUrl(tasks[task_id].pdf_url) \/ tasks[task_id].status # "completed"
    THEN Response("pdf", 404, "PDF not available for this task", task_id, <<>>, None)
  ELSE Response("pdf", 302, None, task_id, <<>>, tasks[task_id].pdf_url)

\* handle_download_pdf; details of the 302 answer is the Location header
HandleDownloadPdf(task_id, tasks) ==
  IF task_id \notin DOMAIN tasks
    THEN Response("pdf", 404, "Task not found", task_id, <<>>, None)
  ELSE IF ~TruthyUrl(tasks[task_id].pdf_url)
    THEN Response("pdf", 404, "PDF not available for this task", task_id, <<>>, None)
  ELSE Response("pdf", 302, None, task_id, <<>>, tasks[task_id].pdf_url)

\* handle_download_mp3
HandleDownloadMp3(task_id, tasks) ==
  IF task_id \notin DOMAIN tasks
    THEN Response("mp3", 404, "Task not found", task_id, <<>>, None)
  ELSE IF ~TruthyUrl(tasks[task_id].mp3_url)
    THEN Response("mp3", 404, "MP3 not available for this task", task_id, <<>>, None)
  ELSE Response("mp3", 302, None, task_id, <<>>, tasks[task_id].mp3_url)

\* handle_get_abstract
HandleGetAbstract(task_id, tasks) ==
  IF task_id \notin DOMAIN tasks
    THEN Response("abstract", 404, "Task not found", task_id, <<>>, None)
  ELSE IF ~TruthyUrl(tasks[task_id].abstract_url)
    THEN Response("abstract", 404, "Abstract not available for this task", task_id,
                  <<>>, None)
  ELSE Response("abstract", 302, None, task_id, <<>>, tasks[task_id].abstract_url)

\* the read routes of handle_api_gateway_request: GET /, /api/tasks,
\* /api/status, /api/status/{id}, /api/transcription,
\* /download/{id}/transcription, /api/pdf, /api/mp3, /api/abstract, and any
\* other method and path
Routes ==
  {"index", "tasks", "status", "status_path", "transcription",
   "transcription_path", "pdf", "mp3", "abstract", "unknown"}
QueryRoutes == {"status", "transcription", "pdf", "mp3", "abstract"}
PathRoutes == {"status_path", "transcription_path"}

\* the task_id of a request: '' (or no parameter), the literal '{task_id}'
\* of a path whose parameter was not substituted, or an id
EmptyId == 0
PlaceholderId == 0 - 1
GetIds == {EmptyId, PlaceholderId} \cup RequestIds

\* mutant of RouteNotFound: the fallback answers with a message
RouteNotFoundMessage(route) ==
  Response(route, 404, None, 0, <<>>, "Not found")
\* the else branch of handle_api_gateway_request
RouteNotFound(route) == Response(route, 404, "Not found", 0, <<>>, None)

\* handle_api_gateway_request for the read routes; raises says that the
\* handler of the route raises, which its except clause (or the one of
\* handle_api_gateway_request) answers with 500 and str(e)
HandleApiGatewayRequest(route, task_id, tasks, raises) ==
  IF route = "unknown" THEN RouteNotFound(route)
  ELSE IF raises THEN Response(route, 500, "str(e)", 0, <<>>, None)
  ELSE IF route = "index" THEN Response(route, 200, None, 0, <<>>, None)
  ELSE IF route = "tasks" THEN Response(route, 200, None, 0, <<>>, tasks)
  ELSE IF route \in QueryRoutes /\ task_id = EmptyId
    THEN Response(route, 400, "task_id query parameter is required", 0, <<>>, None)
  ELSE IF route \in PathRoutes /\ task_id = PlaceholderId
    THEN Response(route, 400, "Yandex API Gateway path parameter extraction issue",
                  0, <<>>, None)
  ELSE IF route \in {"status", "status_path"}
    THEN HandleTaskStatusLookup(task_id, tasks)
  ELSE IF route \in {"transcription", "transcription_path"}
    THEN HandleDownloadTranscription(task_id, tasks)
  ELSE IF route = "pdf" THEN HandleDownloadPdf(task_id, tasks)
  ELSE IF route = "mp3" THEN HandleDownloadMp3(task_id, tasks)
  ELSE HandleGetAbstract(task_id, tasks)

GetRequest(route, task_id, listOk, unreadable, raises) ==
  [op |-> "get", route |-> route, task_id |-> task_id, listOk |-> listOk,
   unreadable |-> unreadable, raises |-> raises]

\* mutant of StoreAfterRead: reading the tasks consumes their objects
StoreAfterReadConsumes(st) == <<>>
\* the tasks/ objects after get_tasks_from_storage, which only calls
\* list_objects_v2 and get_object
StoreAfterRead(st) == st

\* a GET request: the handlers read the bucket and write nothing
ApiRequest(route, task_id, listOk, unreadable, raises) ==
  /\ unreadable \subseteq DOMAIN store
  /\ listOk \/ unreadable = {}
  /\ route \in {"index", "tasks", "unknown"} => task_id = EmptyId
  /\ route \in {"index", "unknown"} => (listOk /\ unreadable = {})
  /\ req' = <<GetRequest(route, task_id, listOk, unreadable, raises)>>
  /\ resp' = <<HandleApiGatewayRequest(route, task_id,
                                       GetTasksFromStorage(listOk, unreadable),
                                       raises)>>
  /\ store' = StoreAfterRead(store)
  /\ UNCHANGED <<objs, old, hours, faults, msgs, queued, hidden, nextId, clock, wk,
                 pend>>

\* the keys handle_delete_task calls delete_object for, by prefix:
\* tasks/{id}.json, transcriptions/{id}.txt, results/{id}/notes.pdf,
\* mp3/{id}.mp3
DeletePrefixes == {"tasks", "transcriptions", "results", "mp3"}

\* the delete_object calls of one request that raise: none, the one of the
\* task record, the one of an artifact, all of them
DeleteFailures == {{}, {"tasks"}, {"mp3"}, DeletePrefixes}

DeleteRequest(task_id, listOk, unreadable, failed) ==
  [op |-> "delete", task_id |-> task_id, listOk |-> listOk,
   unreadable |-> unreadable, failed |-> failed]

\* handle_delete_task; failed holds the prefixes whose delete_object raises
\* (every one of them is caught and logged); details of the 404 body is
\* available_tasks
DeleteTask(task_id, listOk, unreadable, failed) ==
  LET tasks == GetTasksFromStorage(listOk, unreadable)
      deleted == {<<prefix, task_id>> : prefix \in DeletePrefixes \ failed}
  IN
  /\ unreadable \subseteq DOMAIN store
  /\ req' = <<DeleteRequest(task_id, listOk, unreadable, failed)>>
  /\ UNCHANGED <<hours, faults, msgs, queued, hidden, nextId, clock, wk, pend>>
  /\ IF task_id \notin DOMAIN tasks
       THEN /\ resp' = <<Response("delete", 404, "Task not found", task_id, <<>>,
                          DOMAIN tasks)>>
            /\ UNCHANGED <<store, objs, old>>
       ELSE /\ store' = Restrict(store, {t \in DOMAIN store : TaskKey(t) \notin deleted})
            /\ objs' = objs \ deleted
            /\ old' = old \ deleted
            /\ resp' = <<Response("delete", 200, None, task_id, <<tasks[task_id]>>,
                          None)>>

\* ---------------------------------------------------------- specification
Next ==
  \/ \E title \in Titles, video_url \in VideoUrls, lookup \in LookupOutcomes,
        saveOk \in BOOLEAN, sendOk \in BOOLEAN :
       SubmitTask(title, video_url, lookup, saveOk, sendOk)
  \/ HourPasses
  \/ \E task_id \in TaskIds : VisibilityTimeout(task_id)
  \/ \E w \in Workers : InvokeIdle(w)
  \/ \E w \in Workers, task_id \in TaskIds : InvokePoll(w, task_id)
  \/ \E w \in Workers, batch \in AllBatches : InvokeTrigger(w, batch)
  \/ \E w \in Workers, readOk \in BOOLEAN : Begin(w, readOk)
  \/ \E w \in Workers, video_path \in {None, "video_path"}, readOk \in BOOLEAN :
       DownloadVideo(w, video_path, readOk)
  \/ \E w \in Workers, mp3_path \in {Raised, "mp3_path"}, readOk \in BOOLEAN :
       ConvertToMp3(w, mp3_path, readOk)
  \/ \E w \in Workers, ok \in BOOLEAN, readOk \in BOOLEAN : UploadMp3(w, ok, readOk)
  \/ \E w \in Workers, outcome \in TranscribeOutcomes, d \in Durations,
        readOk \in BOOLEAN : Transcribe(w, outcome, d, readOk)
  \/ \E w \in Workers, d \in Durations, readOk \in BOOLEAN : Finalize(w, d, readOk)
  \/ \E w \in Workers, gpt \in GptOutcomes, uploadOk \in BOOLEAN, d \in Durations,
        readOk \in BOOLEAN : Summarize(w, gpt, uploadOk, d, readOk)
  \/ \E w \in Workers, generated \in BOOLEAN, saved \in BOOLEAN, d \in Durations,
        readOk \in BOOLEAN : RenderPdf(w, generated, saved, d, readOk)
  \/ \E w \in Workers, writeOk \in BOOLEAN : PutStatus(w, writeOk)
  \/ \E w \in Workers, ackOk \in BOOLEAN : Return(w, ackOk)

Spec == Init /\ [][Next]_vars

\* the API with a polling worker whose storage and queue calls succeed:
\* submissions, deletions and the stages of process_task
ApiNext ==
  \/ \E title \in Titles, video_url \in VideoUrls, lookup \in LookupOutcomes,
        saveOk \in BOOLEAN, sendOk \in BOOLEAN :
       SubmitTask(title, video_url, lookup, saveOk, sendOk)
  \/ \E task_id \in RequestIds, listOk \in BOOLEAN, unreadable \in SUBSET TaskIds,
        failed \in DeleteFailures :
       DeleteTask(task_id, listOk, unreadable, failed)
  \/ \E w \in Workers, task_id \in TaskIds : InvokePoll(w, task_id)
  \/ \E w \in Workers : Begin(w, TRUE)
  \/ \E w \in Workers, video_path \in {None, "video_path"} :
       DownloadVideo(w, video_path, TRUE)
  \/ \E w \in Workers, mp3_path \in {Raised, "mp3_path"} :
       ConvertToMp3(w, mp3_path, TRUE)
  \/ \E w \in Workers, ok \in BOOLEAN : UploadMp3(w, ok, TRUE)
  \/ \E w \in Workers, outcome \in TranscribeOutcomes, d \in Durations :
       Transcribe(w, outcome, d, TRUE)
  \/ \E w \in Workers, d \in Durations : Finalize(w, d, TRUE)
  \/ \E w \in Workers, gpt \in GptOutcomes, uploadOk \in BOOLEAN, d \in Durations :
       Summarize(w, gpt, uploadOk, d, TRUE)
  \/ \E w \in Workers, generated \in BOOLEAN, saved \in BOOLEAN, d \in Durations :
       RenderPdf(w, generated, saved, d, TRUE)
  \/ \E w \in Workers : PutStatus(w, TRUE)
  \/ \E w \in Workers : Return(w, TRUE)

ApiSpec == Init /\ [][ApiNext]_vars

\* the GET routes against a store that submissions, deliveries and runs of
\* process_task change; the storage calls of the worker succeed
ReadNext ==
  \/ \E title \in Titles, video_url \in VideoUrls, lookup \in LookupOutcomes,
        saveOk \in BOOLEAN, sendOk \in BOOLEAN :
       SubmitTask(title, video_url, lookup, saveOk, sendOk)
  \/ \E route \in Routes, task_id \in GetIds :
       ApiRequest(route, task_id, TRUE, {}, FALSE)
  \/ \E task_id \in TaskIds, listOk \in BOOLEAN, unreadable \in SUBSET TaskIds,
        raises \in BOOLEAN :
       ApiRequest("status", task_id, listOk, unreadable, raises)
  \/ \E task_id \in TaskIds : VisibilityTimeout(task_id)
  \/ \E w \in Workers, task_id \in TaskIds : InvokePoll(w, task_id)
  \/ \E w \in Workers : Begin(w, TRUE)
  \/ \E w \in Workers, video_path \in {None, "video_path"} :
       DownloadVideo(w, video_path, TRUE)
  \/ \E w \in Workers : ConvertToMp3(w, "mp3_path", TRUE)
  \/ \E w \in Workers : UploadMp3(w, TRUE, TRUE)
  \/ \E w \in Workers, outcome \in {Raised, "text"} :
       Transcribe(w, outcome, "duration", TRUE)
  \/ \E w \in Workers : Finalize(w, "duration", TRUE)
  \/ \E w \in Workers, uploadOk \in BOOLEAN :
       Summarize(w, "ok", uploadOk, "duration", TRUE)
  \/ \E w \in Workers, saved \in BOOLEAN : RenderPdf(w, TRUE, saved, "duration", TRUE)
  \/ \E w \in Workers : PutStatus(w, TRUE)
  \/ \E w \in Workers, ackOk \in BOOLEAN : Return(w, ackOk)

ReadSpec == Init /\ [][ReadNext]_vars

\* two deliveries of one message whose runs overlap: the visibility timeout
\* of the message expires while the first invocation is still in
\* process_task, and a second invocation receives it; storage and queue
\* calls succeed
RaceWorkers == 1..MaxOverlap

RaceInit ==
  /\ store = <<>>
  /\ objs = {}
  /\ old = {}
  /\ hours = 0
  /\ faults = 0
  /\ msgs = <<>>
  /\ queued = {}
  /\ hidden = {}
  /\ nextId = 1
  /\ clock = 1
  /\ wk = [w \in RaceWorkers |-> IdleWorker]
  /\ pend = [w \in RaceWorkers |-> <<>>]
  /\ req = <<>>
  /\ resp = <<>>

RaceNext ==
  \/ SubmitTask("Intro", "https://example.com/v.mp4", "video", TRUE, TRUE)
  \/ \E task_id \in TaskIds : VisibilityTimeout(task_id)
  \/ \E w \in RaceWorkers, task_id \in TaskIds : InvokePoll(w, task_id)
  \/ \E w \in RaceWorkers : Begin(w, TRUE)
  \/ \E w \in RaceWorkers, video_path \in {None, "video_path"} :
       DownloadVideo(w, video_path, TRUE)
  \/ \E w \in RaceWorkers : ConvertToMp3(w, "mp3_path", TRUE)
  \/ \E w \in RaceWorkers : UploadMp3(w, TRUE, TRUE)
  \/ \E w \in RaceWorkers, outcome \in {Raised, "text"} :
       Transcribe(w, outcome, "duration", TRUE)
  \/ \E w \in RaceWorkers : Finalize(w, "duration", TRUE)
  \/ \E w \in RaceWorkers : Summarize(w, "ok", TRUE, "duration", TRUE)
  \/ \E w \in RaceWorkers : RenderPdf(w, TRUE, TRUE, "duration", TRUE)
  \/ \E w \in RaceWorkers : PutStatus(w, TRUE)
  \/ \E w \in RaceWorkers : Return(w, TRUE)

RaceSpec == RaceInit /\ [][RaceNext]_vars

\* several tasks have been submitted and their messages are in the queue
\* when the worker function is invoked, by the queue trigger with one or
\* more messages or to poll; storage and queue calls succeed
BatchInit ==
  /\ store = [t \in BatchTasks |-> NewTask(t, "Intro", "https://example.com/v.mp4", 1)]
  /\ objs = {}
  /\ old = {}
  /\ hours = 0
  /\ faults = 0
  /\ msgs = [t \in BatchTasks |-> NewTask(t, "Intro", "https://example.com/v.mp4", 1)]
  /\ queued = BatchTasks
  /\ hidden = {}
  /\ nextId = MaxBatch + 1
  /\ clock = 1
  /\ wk = [w \in Workers |-> IdleWorker]
  /\ pend = [w \in Workers |-> <<>>]
  /\ req = <<>>
  /\ resp = <<>>

BatchNext ==
  \/ \E task_id \in BatchTasks : VisibilityTimeout(task_id)
  \/ \E w \in Workers, task_id \in BatchTasks : InvokePoll(w, task_id)
  \/ \E w \in Workers, batch \in AllBatches : InvokeTrigger(w, batch)
  \/ \E w \in Workers : Begin(w, TRUE)
  \/ \E w \in Workers, video_path \in {None, "video_path"} :
       DownloadVideo(w, video_path, TRUE)
  \/ \E w \in Workers : ConvertToMp3(w, "mp3_path", TRUE)
  \/ \E w \in Workers : UploadMp3(w, TRUE, TRUE)
  \/ \E w \in Workers, outcome \in {Raised, "text"} :
       Transcribe(w, outcome, "duration", TRUE)
  \/ \E w \in Workers : Finalize(w, "duration", TRUE)
  \/ \E w \in Workers : Summarize(w, "ok", TRUE, "duration", TRUE)
  \/ \E w \in Workers, saved \in BOOLEAN : RenderPdf(w, TRUE, saved, "duration", TRUE)
  \/ \E w \in Workers : PutStatus(w, TRUE)
  \/ \E w \in Workers, ackOk \in BOOLEAN : Return(w, ackOk)

BatchSpec == BatchInit /\ [][BatchNext]_vars

\* the tasks are submitted and a worker runs them with the transcription
\* taken one status check at a time; storage and queue calls succeed
PollInit ==
  /\ store = [t \in TaskIds |-> NewTask(t, "Intro", "https://example.com/v.mp4", 1)]
  /\ objs = {}
  /\ old = {}
  /\ hours = 0
  /\ faults = 0
  /\ msgs = [t \in TaskIds |-> NewTask(t, "Intro", "https://example.com/v.mp4", 1)]
  /\ queued = TaskIds
  /\ hidden = {}
  /\ nextId = MaxTasks + 1
  /\ clock = 1
  /\ wk = [w \in Workers |-> IdleWorker]
  /\ pend = [w \in Workers |-> <<>>]
  /\ req = <<>>
  /\ resp = <<>>

\* the steps of the run of worker w
PollRun(w) ==
  \/ Begin(w, TRUE)
  \/ DownloadVideo(w, "video_path", TRUE)
  \/ ConvertToMp3(w, "mp3_path", TRUE)
  \/ UploadMp3(w, TRUE, TRUE)
  \/ \E started \in BOOLEAN : StartRecognition(w, started, "duration", TRUE)
  \/ \E check \in StatusChecks : CheckStatus(w, check)
  \/ LeaveLoop(w, "duration", TRUE)
  \/ Finalize(w, "duration", TRUE)
  \/ Summarize(w, "ok", TRUE, "duration", TRUE)
  \/ RenderPdf(w, TRUE, TRUE, "duration", TRUE)
  \/ PutStatus(w, TRUE)
  \/ Return(w, TRUE)

PollNext ==
  \/ \E w \in Workers, task_id \in TaskIds : InvokePoll(w, task_id)
  \/ \E w \in Workers : PollRun(w)

\* an invocation that has started keeps running: the function is not
\* stopped between two statements
PollSpec == PollInit /\ [][PollNext]_vars /\ \A w \in Workers : WF_vars(PollRun(w))

\* ---------------------------------------------------- text-handling functions
\* dict.get(key, default)
DictGet(d, key, default) == IF key \in DOMAIN d THEN d[key] ELSE default

\* chunks of a recognition result: without 'alternatives', with an empty
\* list of them, with a first alternative without 'text', with empty text,
\* with text, and with two alternatives
Chunks ==
  { [channelTag |-> "1"],
    [alternatives |-> <<>>],
    [alternatives |-> <<[confidence |-> "1"]>>],
    [alternatives |-> <<[text |-> ""]>>],
    [alternatives |-> <<[text |-> "a"]>>],
    [alternatives |-> <<[text |-> "b c"], [text |-> "d"]>>] }

MaxChunks == 3       \* chunks of one recognition result
ChunkLists == UNION {[1..n -> Chunks] : n \in 0..MaxChunks}

\* ' '.join(parts)
RECURSIVE JoinStrings(_)
JoinStrings(parts) ==
  IF parts = <<>> THEN ""
  ELSE IF Len(parts) = 1 THEN parts[1]
  ELSE parts[1] \o " " \o JoinStrings(Tail(parts))

\* the loop over chunks: the text of the first alternative is appended when
\* there are alternatives and the text is not empty
RECURSIVE TranscriptionParts(_)
TranscriptionParts(chunks) ==
  IF chunks = <<>> THEN <<>>
  ELSE LET alternatives == DictGet(chunks[1], "alternatives", <<>>)
           text == IF alternatives # <<>>
                     THEN DictGet(alternatives[1], "text", "") ELSE ""
       IN (IF text # "" THEN <<text>> ELSE <<>>) \o TranscriptionParts(Tail(chunks))

\* mutant of JoinTranscription: the first chunk is left out
JoinTranscriptionSkipsFirst(response_data) ==
  LET chunks == DictGet(response_data, "chunks", <<>>)
  IN IF chunks = <<>> THEN "" ELSE JoinStrings(TranscriptionParts(Tail(chunks)))

\* the text transcribe_audio_speechkit returns for a done operation
JoinTranscription(response_data) ==
  LET chunks == DictGet(response_data, "chunks", <<>>)
  IN IF chunks = <<>> THEN "" ELSE JoinStrings(TranscriptionParts(chunks))

\* responses of a done operation: with chunks or without the key
Responses == {[chunks |-> c] : c \in ChunkLists} \cup {[other |-> "x"]}

\* texts are sequences of characters; Caps stands for a run of fifty
\* capital letters
Caps == "AAAAAAAAAAAAAAAAAAAAAAAAAAAAAAAAAAAAAAAAAAAAAAAAAA"
Newline == "\n"
Characters == {"#", "-", "*", " ", "a", "A", "<", Newline, Caps}
MaxText == 3         \* characters of an abstract
Texts == UNION {[1..n -> Characters] : n \in 0..MaxText}

\* len(line)
RECURSIVE StrLen(_)
StrLen(line) ==
  IF line = <<>> THEN 0
  ELSE (IF line[1] = Caps THEN 50 ELSE 1) + StrLen(Tail(line))

\* processed_text.split('\n')
RECURSIVE Split(_, _)
Split(text, line) ==
  IF text = <<>> THEN <<line>>
  ELSE IF text[1] = Newline THEN <<line>> \o Split(Tail(text), <<>>)
  ELSE Split(Tail(text), Append(line, text[1]))

\* line.strip()
RECURSIVE StripLine(_)
StripLine(line) ==
  IF line = <<>> THEN <<>>
  ELSE IF line[1] = " " THEN StripLine(Tail(line))
  ELSE IF line[Len(line)] = " " THEN StripLine(SubSeq(line, 1, Len(line) - 1))
  ELSE line

\* line.isupper(): there is a cased character and none is lower case
IsUpper(line) ==
  /\ \E i \in 1..Len(line) : line[i] \in {"A", Caps}
  /\ \A i \in 1..Len(line) : line[i] # "a"

\* html.escape
RECURSIVE HtmlEscape(_)
HtmlEscape(line) ==
  IF line = <<>> THEN <<>>
  ELSE (IF line[1] = "<" THEN <<"&", "l", "t", ";">> ELSE <<line[1]>>)
         \o HtmlEscape(Tail(line))

\* ' '.join(current_section)
RECURSIVE JoinLines(_)
JoinLines(section) ==
  IF section = <<>> THEN <<>>
  ELSE IF Len(section) = 1 THEN section[1]
  ELSE section[1] \o <<" ">> \o JoinLines(Tail(section))

\* the longest heading is one character shorter
HeadingLimit == 50

\* the branch of the loop a stripped line takes
LineKind(line) ==
  IF line = <<>> THEN "blank"
  ELSE IF IsUpper(line) /\ StrLen(line) < HeadingLimit THEN "heading"
  ELSE "body"

NormalParagraph(section) == [style |-> "Normal", text |-> HtmlEscape(JoinLines(section))]
Heading(line) == [style |-> "Heading1", text |-> HtmlEscape(line)]
Spacer(height) == [style |-> "Spacer", height |-> height]

\* the loop over the lines with the story and the section gathered so far
RECURSIVE StoryOf(_, _, _)
StoryOf(lines, story, current_section) ==
  IF lines = <<>>
    THEN IF current_section # <<>>
           THEN Append(story, NormalParagraph(current_section))
           ELSE story
  ELSE LET line == StripLine(lines[1])
       IN IF LineKind(line) = "blank"
            THEN IF current_section # <<>>
                   THEN StoryOf(Tail(lines),
                                story \o <<NormalParagraph(current_section), Spacer(6)>>,
                                <<>>)
                   ELSE StoryOf(Tail(lines), story, current_section)
          ELSE IF LineKind(line) = "heading"
            THEN StoryOf(Tail(lines),
                         (IF current_section # <<>>
                            THEN Append(story, NormalParagraph(current_section))
                            ELSE story) \o <<Heading(line), Spacer(12)>>,
                         <<>>)
          ELSE StoryOf(Tail(lines), story, Append(current_section, line))

\* generate_pdf_notes: the flowables made from the abstract, after the title
\* and the timestamp
GeneratePdfNotes(processed_text) == StoryOf(Split(processed_text, <<>>), <<>>, <<>>)

\* the inputs are drawn at the start and the function is applied to them
TextInit ==
  /\ store = <<>>
  /\ objs = {}
  /\ old = {}
  /\ hours = 0
  /\ faults = 0
  /\ msgs = <<>>
  /\ queued = {}
  /\ hidden = {}
  /\ nextId = 1
  /\ clock = 1
  /\ wk = [w \in Workers |-> IdleWorker]
  /\ pend = [w \in Workers |-> <<>>]
  /\ req \in {[response_data |-> r] : r \in Responses}
               \cup {[processed_text |-> t] : t \in Texts}
  /\ resp = <<>>

ApplyJoinTranscription ==
  /\ resp = <<>>
  /\ "response_data" \in DOMAIN req
  /\ resp' = [transcription |-> JoinTranscription(req.response_data)]
  /\ UNCHANGED <<store, objs, old, hours, faults, msgs, queued, hidden, nextId,
                 clock, wk, pend, req>>

ApplyGeneratePdfNotes ==
  /\ resp = <<>>
  /\ "processed_text" \in DOMAIN req
  /\ resp' = [story |-> GeneratePdfNotes(req.processed_text)]
  /\ UNCHANGED <<store, objs, old, hours, faults, msgs, queued, hidden, nextId,
                 clock, wk, pend, req>>

TextNext == ApplyJoinTranscription \/ ApplyGeneratePdfNotes

TextSpec == TextInit /\ [][TextNext]_vars

\* ------------------------------------------------------------------ claims
Terminal(status) == status \in {"completed", "failed"}

\* the step is the put_object of worker w's pending status update, and the
\* write went through
Persists(w) == pend[w] # <<>> /\ pend'[w] = <<>> /\ wk'[w].written

\* C1: once the persisted status of a task is completed or failed, no later
\* step writes status processing for that task_id again
C1_TerminalNeverReopens ==
  [][\A t \in TaskIds :
       (t \in DOMAIN store /\ Terminal(store[t].status) /\ t \in DOMAIN store')
         => store'[t].status # "processing"]_vars

\* C2 as stated: every status update a run persists, whatever its status,
\* carries a progress >= the progress persisted before it in that run
\* (starting from the 10 written at submission)
C2_ProgressNeverDecreases ==
  [][\A w \in Workers : Persists(w) => pend[w][1].progress >= wk[w].last]_vars

\* C2 amended: every update a run persists with status processing or
\* completed carries a progress >= the one persisted before it in that run;
\* an update with status failed carries progress 0
C2_ProgressMonotoneUnlessFailed ==
  [][\A w \in Workers :
       Persists(w) =>
         IF pend[w][1].status = "failed"
           THEN pend[w][1].progress = 0
           ELSE pend[w][1].progress >= wk[w].last]_vars

\* a run persisted the failed update after it had persisted progress 40
C2_Witness ==
  \E w \in Workers :
    /\ wk[w].pc = "ret" /\ pend[w] = <<>> /\ wk[w].written
    /\ wk[w].last = 0 /\ Truthy(wk[w].video_path)

\* C3: in every persisted record, progress = 100 iff status = completed
C3_FullProgressIffCompleted ==
  \A t \in DOMAIN store :
    (store[t].progress = 100) <=> (store[t].status = "completed")

C3_Witness ==
  \E t \in DOMAIN store :
    store[t].status = "completed" /\ store[t].progress = 100

\* C4: in every persisted record a non-empty abstract_url implies a
\* non-empty transcription and a non-empty pdf_url implies a non-empty
\* abstract_url
C4_DependencyChain ==
  \A t \in DOMAIN store :
    /\ TruthyUrl(store[t].abstract_url) => Truthy(store[t].transcription)
    /\ TruthyUrl(store[t].pdf_url) => TruthyUrl(store[t].abstract_url)

\* the record of worker w's task before and after the step has the same
\* result fields
SameResults(a, b) ==
  /\ a.mp3_url = b.mp3_url /\ a.processed_at = b.processed_at
  /\ a.video_duration = b.video_duration /\ a.transcription = b.transcription
  /\ a.abstract_url = b.abstract_url /\ a.pdf_url = b.pdf_url

InRun(w) == wk[w].pc \notin {"idle", "done"}
\* download_video returned no path / convert_to_mp3 raised / the upload of
\* the MP3 returned no URL
DownloadFailed(w) ==
  wk[w].pc \notin {"idle", "done", "start", "download"} /\ ~Truthy(wk[w].video_path)
ConvertFailed(w) == InRun(w) /\ wk[w].exc # None
UploadFailed(w) ==
  /\ wk[w].pc \notin {"idle", "done", "start", "download", "convert", "upload"}
  /\ ~TruthyUrl(wk[w].mp3_url)
HardFailure(w) == DownloadFailed(w) \/ ConvertFailed(w) \/ UploadFailed(w)

\* no soft stage has started in the run of w
NoSoftStage(w) ==
  /\ wk[w].transcription = None /\ wk[w].abstract = None
  /\ wk[w].abstract_url = NoUrl /\ wk[w].pdf_url = NoUrl

C5_FailedCall(w) ==
  /\ wk[w].pc = "ret" /\ ~wk[w].ret /\ NoSoftStage(w)
  /\ pend[w] # <<>> =>
       /\ pend[w][1].status = "failed" /\ pend[w][1].progress = 0
       /\ Truthy(pend[w][1].message) /\ pend[w][1].result.keys = {}

\* C5: when download, transcode or audio upload fails, the run goes straight
\* to the status update (failed, 0, diagnostic) and returns false without
\* starting transcription, summarisation or PDF rendering; the update, when
\* update_task_status persists it, leaves status failed and progress 0 in
\* the record and changes no result field
C5_HardFailureFails ==
  /\ [](\A w \in Workers : HardFailure(w) => C5_FailedCall(w))
  /\ [][\A w \in Workers :
          (HardFailure(w) /\ Persists(w)) =>
            /\ store'[wk[w].task].status = "failed"
            /\ store'[wk[w].task].progress = 0
            /\ Truthy(store'[wk[w].task].status_message)
            /\ SameResults(store'[wk[w].task], pend[w][1].task_data)
            /\ wk'[w].pc = "ret"]_vars

\* the upload of the MP3 failed and the failed update is in the record
C5_Witness ==
  \E w \in Workers :
    /\ UploadFailed(w) /\ Truthy(wk[w].mp3_path) /\ pend[w] = <<>> /\ wk[w].written
    /\ wk[w].task \in DOMAIN store
    /\ store[wk[w].task].status = "failed"
    /\ store[wk[w].task].status_message = "Failed to upload MP3"

\* C6: a record whose status is completed holds a non-empty mp3_url; the
\* write that makes a record completed is a status update whose result
\* carries the mp3_url of an upload that succeeded in the writer's run
C6_CompletedHasMp3 ==
  /\ [](\A t \in DOMAIN store :
          store[t].status = "completed" => TruthyUrl(store[t].mp3_url))
  /\ [][\A t \in TaskIds :
          (/\ t \in DOMAIN store'
           /\ store'[t].status = "completed"
           /\ (t \notin DOMAIN store \/ store[t].status # "completed"))
          => \E w \in Workers :
               /\ Persists(w) /\ wk[w].task = t
               /\ "mp3_url" \in pend[w][1].result.keys
               /\ pend[w][1].result.mp3_url = wk[w].mp3_url
               /\ store'[t].mp3_url = wk[w].mp3_url
               /\ TruthyUrl(wk[w].mp3_url)]_vars

C6_Witness ==
  \E t \in DOMAIN store :
    store[t].status = "completed" /\ store[t].mp3_url = FileUrl("mp3", t)

\* C7: a worker invocation that received its message by polling has called
\* delete_message for it when it returns, whether process_task returned
\* true or false
C7_PolledMessageDeleted ==
  \A w \in Workers : (wk[w].pc = "done" /\ wk[w].mode = "poll") => wk[w].deleted

\* the transcription of w's run raised, or returned an empty text
TranscriptionFailed(w) ==
  \/ wk[w].pc = "finalize"
  \/ wk[w].pc = "ret" /\ wk[w].ret /\ ~Truthy(wk[w].transcription)

SoftKeys == {"transcription", "abstract_url", "pdf_url"}

C8_DegradedCall(w) ==
  /\ TruthyUrl(wk[w].mp3_url)
  /\ wk[w].abstract_url = NoUrl /\ wk[w].pdf_url = NoUrl
  /\ pend[w] # <<>> =>
       /\ pend[w][1].status # "failed"
       /\ pend[w][1].result.keys \cap SoftKeys = {}
       /\ wk[w].pc = "ret" =>
            /\ pend[w][1].status = "completed" /\ pend[w][1].progress = 100
            /\ "mp3_url" \in pend[w][1].result.keys
            /\ pend[w][1].result.mp3_url = wk[w].mp3_url

\* C8: when the transcription raises (error, timeout) or returns an empty
\* text after the MP3 was uploaded, the run never issues a failed update; its
\* last update is (completed, 100) with the mp3_url and without
\* transcription, abstract_url and pdf_url, and the record it persists has
\* status completed, progress 100, the mp3_url, and these three fields as
\* they were before the run wrote
C8_TranscriptionFailureDegrades ==
  /\ [](\A w \in Workers : TranscriptionFailed(w) => C8_DegradedCall(w))
  /\ [][\A w \in Workers :
          (TranscriptionFailed(w) /\ wk[w].pc = "ret" /\ Persists(w)) =>
            /\ store'[wk[w].task].status = "completed"
            /\ store'[wk[w].task].progress = 100
            /\ store'[wk[w].task].mp3_url = wk[w].mp3_url
            /\ store'[wk[w].task].transcription = pend[w][1].task_data.transcription
            /\ store'[wk[w].task].abstract_url = pend[w][1].task_data.abstract_url
            /\ store'[wk[w].task].pdf_url = pend[w][1].task_data.pdf_url]_vars

\* a run whose transcription failed has persisted its last update: the
\* record is completed with the MP3 only
C8_Witness ==
  \E w \in Workers :
    /\ TranscriptionFailed(w) /\ wk[w].pc = "ret" /\ pend[w] = <<>> /\ wk[w].written
    /\ wk[w].task \in DOMAIN store
    /\ store[wk[w].task].status = "completed"
    /\ TruthyUrl(store[wk[w].task].mp3_url)
    /\ store[wk[w].task].transcription = Absent
    /\ store[wk[w].task].abstract_url = AbsentUrl

\* download, transcode and audio upload of w's run succeeded
HardStagesDone(w) ==
  /\ wk[w].pc \in {"transcribe", "summarize", "pdf", "finalize", "ret"}
  /\ ~HardFailure(w)

\* C9: once download, transcode and audio upload have succeeded, no outcome
\* of transcription, summarisation or PDF rendering makes the run issue a
\* failed update or return false; the run's last update, when the record
\* can be read and written, leaves status completed, progress 100 and the
\* mp3_url in the record
C9_SoftFailuresComplete ==
  /\ [](\A w \in Workers :
          HardStagesDone(w) =>
            /\ pend[w] # <<>> => pend[w][1].status # "failed"
            /\ wk[w].pc = "ret" => wk[w].ret)
  /\ [][\A w \in Workers :
          (HardStagesDone(w) /\ wk[w].pc = "ret" /\ Persists(w)) =>
            /\ store'[wk[w].task].status = "completed"
            /\ store'[wk[w].task].progress = 100
            /\ TruthyUrl(store'[wk[w].task].mp3_url)]_vars

\* a run whose PDF stage failed after a successful transcription has
\* persisted its last update
C9_Witness ==
  \E w \in Workers :
    /\ HardStagesDone(w) /\ wk[w].pc = "ret" /\ pend[w] = <<>> /\ wk[w].written
    /\ Truthy(wk[w].transcription) /\ wk[w].pdf_url = NoUrl
    /\ wk[w].task \in DOMAIN store
    /\ store[wk[w].task].status = "completed"

SubmitSucceeded ==
  resp # <<>> /\ resp[1].op = "submit" /\ resp[1].statusCode = 200

\* C10: after a successful submit the Task of the response, the record
\* stored under the returned task_id and the body of the message queued for
\* it are the same Task, with that task_id, status processing and progress
\* 10, and the status lookup for the returned task_id answers 200 with it
C10_SubmitConsistent ==
  SubmitSucceeded =>
    LET task_id == resp[1].task_id
        task == resp[1].task[1]
    IN /\ task.task_id = task_id
       /\ task.status = "processing" /\ task.progress = 10
       /\ task_id \in DOMAIN store /\ store[task_id] = task
       /\ task_id \in DOMAIN msgs /\ msgs[task_id] = task
       /\ HandleTaskStatusLookup(task_id, GetTasksFromStorage(TRUE, {}))
            = Response("status", 200, None, task_id, <<task>>, None)

C10_Witness ==
  /\ SubmitSucceeded
  /\ resp[1].task_id \in DOMAIN store
  /\ resp[1].task_id \in DOMAIN msgs

\* the request of the step is a submit
IsSubmit(r) == r # <<>> /\ r[1].op = "submit"
\* the submit request r passes the checks of the body and of the link
PassesValidation(r) ==
  /\ Truthy(r.title) /\ Truthy(r.video_url)
  /\ IsYandexDiskLink(r.video_url) => r.lookup = "video"
\* the step changes neither a task record nor the queue
NothingCreated == store' = store /\ msgs' = msgs /\ queued' = queued

\* C11: a step adds a message for a task_id to the queue only together with
\* the write of the record of that task_id; a submit whose put_object of the
\* record raises answers 500 "Failed to save task to storage", writes no
\* record and sends no message
C11_EnqueueOnlyAfterPersist ==
  [][/\ \A t \in DOMAIN msgs' \ DOMAIN msgs :
          /\ t \notin DOMAIN store
          /\ t \in DOMAIN store' /\ store'[t] = msgs'[t]
     /\ (IsSubmit(req') /\ PassesValidation(req'[1]) /\ ~req'[1].saveOk) =>
          /\ resp'[1].statusCode = 500
          /\ resp'[1].error = "Failed to save task to storage"
          /\ NothingCreated]_vars

\* a submit that passed validation failed to save its task
C11_Witness ==
  /\ IsSubmit(req) /\ PassesValidation(req[1]) /\ ~req[1].saveOk
  /\ resp[1].statusCode = 500 /\ DOMAIN msgs = {} /\ DOMAIN store = {}

\* the record is as handle_submit_task wrote it
AsSubmitted(task) ==
  task = NewTask(task.task_id, task.title, task.video_url, task.created_at)

\* C12: a submit whose record is saved and whose send_message raises answers
\* 500 with an error other than the one of a failed save and leaves the
\* record with status processing and progress 10; no worker run is for a
\* task_id whose message was never accepted, and as long as such a record
\* is in storage it is as the submit wrote it
C12_OrphanedTaskUntouched ==
  /\ [][(IsSubmit(req') /\ PassesValidation(req'[1]) /\ req'[1].saveOk
          /\ ~req'[1].sendOk) =>
          /\ resp'[1].statusCode = 500
          /\ resp'[1].error = "Task saved but failed to queue for processing"
          /\ resp'[1].error # "Failed to save task to storage"
          /\ msgs' = msgs
          /\ nextId \in DOMAIN store'
          /\ store'[nextId].status = "processing"
          /\ store'[nextId].progress = 10]_vars
  /\ [](\A w \in Workers : InRun(w) => wk[w].task \in queued)
  /\ [](\A t \in DOMAIN store :
          t \notin queued =>
            /\ AsSubmitted(store[t])
            /\ store[t].status = "processing" /\ store[t].progress = 10)
  /\ [][\A t \in DOMAIN store \cap DOMAIN store' :
          t \notin queued => store'[t] = store[t]]_vars

\* the record of a task whose message was never queued is still in
\* storage, as submitted, after the retention period has elapsed
C12_Witness ==
  \E t \in DOMAIN store :
    /\ t \notin queued /\ t \notin DOMAIN msgs
    /\ store[t].status = "processing" /\ store[t].progress = 10
    /\ hours = 1 /\ req = <<>>

\* the field is missing from the body or is the empty string
MissingOrEmpty(v) == v \in {Absent, ""}

Strip(v) == IF v = " " THEN "" ELSE v

\* C14: a submit whose title or video_url is empty after trimming
\* whitespace answers 400 and creates no task
C14_BlankFieldRejected ==
  [][(IsSubmit(req') /\ (MissingOrEmpty(Strip(req'[1].title))
                          \/ MissingOrEmpty(Strip(req'[1].video_url)))) =>
       /\ resp'[1].statusCode = 400
       /\ NothingCreated]_vars

\* C15: a submit (with title and video_url) whose video_url matches the
\* share-link pattern creates a task only if the lookup answers 200 and
\* names a video file; otherwise it answers 400 with the diagnostic of the
\* validator, writes no record and sends no message; a video_url that does
\* not match is never answered 400, whatever the lookup would return
C15_ShareLinkValidated ==
  [][(IsSubmit(req') /\ Truthy(req'[1].title) /\ Truthy(req'[1].video_url)) =>
       IF IsYandexDiskLink(req'[1].video_url)
         THEN /\ (store' # store \/ msgs' # msgs) => req'[1].lookup = "video"
              /\ req'[1].lookup # "video" =>
                   /\ resp'[1].statusCode = 400
                   /\ resp'[1].error = "Invalid video URL"
                   /\ resp'[1].details \in
                        {"File is not a video file",
                         "Invalid or expired Yandex Disk link",
                         "Network error while validating link",
                         "Unexpected error during validation"}
                   /\ req'[1].lookup = "not_video" =>
                        resp'[1].details = "File is not a video file"
                   /\ NothingCreated /\ nextId' = nextId
              /\ (req'[1].lookup = "video" /\ req'[1].saveOk /\ req'[1].sendOk) =>
                   resp'[1].statusCode = 200
         ELSE /\ resp'[1].statusCode # 400
              /\ (req'[1].saveOk /\ req'[1].sendOk) =>
                   /\ resp'[1].statusCode = 200
                   /\ nextId \in DOMAIN store' /\ nextId \in DOMAIN msgs']_vars

\* a share link naming a file that is not a video was answered 400
C15_Witness ==
  /\ IsSubmit(req) /\ req[1].title = "Intro"
  /\ IsYandexDiskLink(req[1].video_url) /\ req[1].lookup = "not_video"
  /\ req[1].saveOk /\ req[1].sendOk
  /\ resp[1].statusCode = 400 /\ resp[1].details = "File is not a video file"
  /\ DOMAIN store = {}

\* the request of the step is a delete / was answered with success
IsDelete(r) == r # <<>> /\ r[1].op = "delete"
DeleteSucceeded ==
  IsDelete(req) /\ resp[1].op = "delete" /\ resp[1].statusCode = 200

\* C16: when a delete request has been answered 200, its task_id is absent
\* from the listing of all tasks and the status lookup for it answers 404
C16_DeletedTaskNotFound ==
  DeleteSucceeded =>
    LET tasks == GetTasksFromStorage(TRUE, {}) IN
    /\ req[1].task_id \notin DOMAIN tasks
    /\ HandleTaskStatusLookup(req[1].task_id, tasks).statusCode = 404

\* C17: a delete request for a task_id that has no record answers 404 with
\* available_tasks empty and changes neither the blob store nor the queue
C17_UnknownDeleteHasNoEffect ==
  [][(IsDelete(req') /\ req'[1].task_id \notin DOMAIN store) =>
       /\ resp'[1].statusCode = 404
       /\ resp'[1].details = {}
       /\ store' = store /\ objs' = objs /\ msgs' = msgs]_vars

\* the keys of the persisted layout that belong to a task_id
LayoutPrefixes == {"tasks", "audio", "mp3", "abstracts", "notes", "transcriptions"}
LayoutKeys(task_id) == {<<prefix, task_id>> : prefix \in LayoutPrefixes}

\* C18: when a delete request has been answered 200, no object of its
\* task_id is left under tasks/, audio/, mp3/, abstracts/, notes/ or
\* transcriptions/
C18_DeleteRemovesArtifacts ==
  DeleteSucceeded => LayoutKeys(req[1].task_id) \cap AllKeys = {}

\* C19: a delete whose delete_object calls fail only for artifacts is
\* answered 200, and a delete is never answered 200 while the record of
\* its task_id is still in storage
C19_RecordDeleteFailureSurfaced ==
  /\ DeleteSucceeded => req[1].task_id \notin DOMAIN store
  /\ (IsDelete(req) /\ resp[1].statusCode # 404 /\ "tasks" \notin req[1].failed) =>
       resp[1].statusCode = 200

\* C20: a record that is in storage is returned by the status lookup for
\* its task_id, whether or not the listing or the read of an object fails
C20_StoredTaskRetrievable ==
  \A t \in DOMAIN store, listOk \in BOOLEAN, unreadable \in SUBSET DOMAIN store :
    LET r == HandleTaskStatusLookup(t, GetTasksFromStorage(listOk, unreadable)) IN
    r.statusCode = 200 /\ r.task = <<store[t]>>

\* the result fields a record holds
ResultKeys(task) ==
  {k \in {"mp3_url"} : task.mp3_url # AbsentUrl}
    \cup {k \in {"processed_at"} : task.processed_at # NoTime}
    \cup {k \in {"video_duration"} : task.video_duration # Absent}
    \cup {k \in {"transcription"} : task.transcription # Absent}
    \cup {k \in {"abstract_url"} : task.abstract_url # AbsentUrl}
    \cup {k \in {"pdf_url"} : task.pdf_url # AbsentUrl}

\* C21 as stated: a result field present in the stored record of a task is
\* present in every later version of the record, as long as the record is
\* not deleted
C21_ResultFieldsNeverRemoved ==
  [][\A t \in DOMAIN store \cap DOMAIN store' :
       ResultKeys(store[t]) \subseteq ResultKeys(store'[t])]_vars

\* C21 amended: every status update that is persisted keeps every result
\* field of the version of the record it read; a result field of the stored
\* record is removed only by the write of an update that read a version of
\* the record other than the stored one, which an overlapping run of the
\* task has written since
C21_ResultFieldsKeptByUpdate ==
  [][/\ \A w \in DOMAIN wk :
          (Persists(w) /\ wk[w].task \in DOMAIN store') =>
            ResultKeys(pend[w][1].task_data) \subseteq ResultKeys(store'[wk[w].task])
     /\ \A t \in DOMAIN store \cap DOMAIN store' :
          ~(ResultKeys(store[t]) \subseteq ResultKeys(store'[t])) =>
            \E w \in DOMAIN wk :
              /\ Persists(w) /\ wk[w].task = t
              /\ pend[w][1].task_data # store[t]]_vars

\* an update of a run has kept the result fields a finished run of the same
\* task had written: the record is processing again and holds the mp3_url
C21_Witness ==
  \E w \in DOMAIN wk :
    /\ InRun(w) /\ pend[w] = <<>> /\ wk[w].written /\ wk[w].pc # "start"
    /\ wk[w].task \in DOMAIN store
    /\ store[wk[w].task].status = "processing"
    /\ "mp3_url" \in ResultKeys(store[wk[w].task])

\* the last status update of w's run is in the record
Settled(w) ==
  pend[w] = <<>> /\ wk[w].written /\ wk[w].task \in DOMAIN store

\* C22: while a run is between the upload of the MP3 and the transcription
\* the record holds mp3_url; while it is between the transcription and the
\* summarisation it holds transcription; while it is between the upload of
\* the abstract and the PDF it holds abstract_url
C22_ResultsPersistedIncrementally ==
  \A w \in DOMAIN wk :
    Settled(w) =>
      /\ wk[w].pc = "transcribe" => "mp3_url" \in ResultKeys(store[wk[w].task])
      /\ wk[w].pc = "summarize" => "transcription" \in ResultKeys(store[wk[w].task])
      /\ (wk[w].pc = "pdf" /\ TruthyUrl(wk[w].abstract_url)) =>
           "abstract_url" \in ResultKeys(store[wk[w].task])

\* the fields of a record that submit writes and no update may change
Immutable(task) ==
  <<task.task_id, task.title, task.video_url, task.description, task.created_at>>

\* C23: task_id, title, video_url, description and created_at of a stored
\* record never change: every step leaves them as they are, every status
\* update writes them as it read them, and they equal the values of the
\* task that submit wrote and queued
C23_SubmittedFieldsImmutable ==
  /\ [][/\ \A t \in DOMAIN store \cap DOMAIN store' :
             Immutable(store'[t]) = Immutable(store[t])
        /\ \A w \in DOMAIN wk :
             Persists(w) =>
               Immutable(store'[wk[w].task]) = Immutable(pend[w][1].task_data)]_vars
  /\ [](\A t \in DOMAIN store \cap DOMAIN msgs :
          Immutable(store[t]) = Immutable(msgs[t]))

\* a run has completed the record and its message, which holds the task as
\* submitted, is still queued
C23_Witness ==
  \E t \in DOMAIN store \cap DOMAIN msgs :
    /\ store[t].status = "completed" /\ store[t].status_message # Absent
    /\ Immutable(store[t]) = Immutable(msgs[t])

\* C24: a record holds processed_at exactly when it has been written with
\* status completed, and the processed_at of a stored record never changes,
\* also when the message of the task is processed again
C24_ProcessedAtSetOnce ==
  /\ [](\A t \in DOMAIN store :
          store[t].status = "completed" => store[t].processed_at # NoTime)
  /\ [][\A t \in DOMAIN store \cap DOMAIN store' :
          /\ (store[t].processed_at = NoTime /\ store'[t].processed_at # NoTime)
               => store'[t].status = "completed"
          /\ store[t].processed_at # NoTime
               => store'[t].processed_at = store[t].processed_at]_vars

\* the answer of an artifact route for a stored task whose listing and read
\* succeed and whose handler does not raise
Lookup(route, t) ==
  HandleApiGatewayRequest(route, t, GetTasksFromStorage(TRUE, {}), FALSE)

\* C25: for every stored task, whatever its status, the pdf, mp3 and abstract
\* lookups answer 404 exactly when pdf_url, mp3_url, abstract_url is absent
\* or empty and otherwise 302 with the stored URL as Location; the
\* transcription lookup answers 404 exactly when transcription is absent or
\* empty and otherwise 200 with the stored text
C25_ArtifactLookupsFollowField ==
  \A t \in DOMAIN store :
    /\ \A route \in {"pdf", "mp3", "abstract"} :
         LET url == IF route = "pdf" THEN store[t].pdf_url
                    ELSE IF route = "mp3" THEN store[t].mp3_url
                    ELSE store[t].abstract_url
             r == Lookup(route, t)
         IN /\ (r.statusCode = 404) <=> ~TruthyUrl(url)
            /\ TruthyUrl(url) => (r.statusCode = 302 /\ r.details = url)
    /\ \A route \in {"transcription", "transcription_path"} :
         LET r == Lookup(route, t)
         IN /\ (r.statusCode = 404) <=> ~Truthy(store[t].transcription)
            /\ Truthy(store[t].transcription)
                 => (r.statusCode = 200 /\ r.details = store[t].transcription)

\* a PDF lookup was answered with a redirect for a task that a redelivery has
\* put back to processing
C25_Witness ==
  /\ resp # <<>>
  /\ resp[1].op = "pdf"
  /\ resp[1].statusCode = 302
  /\ resp[1].task_id \in DOMAIN store
  /\ store[resp[1].task_id].status = "processing"
  /\ resp[1].details = store[resp[1].task_id].pdf_url

\* the request is a status lookup (GET /api/status or /api/status/{id})
\* whose listing and reads succeed and whose handler does not raise
IsStatusLookup(r) ==
  /\ r # <<>>
  /\ r[1].op = "get"
  /\ r[1].route \in {"status", "status_path"}
  /\ r[1].task_id \in RequestIds
  /\ r[1].listOk
  /\ r[1].unreadable = {}
  /\ ~r[1].raises

InvokeStep(w) ==
  /\ wk[w].pc \in {"idle", "done"}
  /\ wk'[w].tick # wk[w].tick

\* C27: after a sweep that met no storage error no object (task record,
\* MP3, abstract, PDF) older than the retention period is left, every younger
\* object is still there and every younger record unchanged, and a record
\* older than the period is gone whatever its status
C27_SweepDeletesExactlyOld ==
  [][\A w \in Workers :
       (InvokeStep(w) /\ wk'[w].sweep = "ok") =>
         /\ ({TaskKey(t) : t \in DOMAIN store'} \cup objs') \cap old = {}
         /\ old' = {}
         /\ objs' = objs \ old
         /\ \A t \in DOMAIN store :
              IF TaskKey(t) \in old
                THEN t \notin DOMAIN store'
                ELSE t \in DOMAIN store' /\ store'[t] = store[t]]_vars

\* the first delivery of a task starts after the retention period has
\* elapsed: the sweep of the invocation met no error and the record, still
\* processing as submitted, is gone
C27_Witness ==
  \E w \in Workers :
    /\ wk[w].pc = "start" /\ wk[w].sweep = "ok"
    /\ hours = 1 /\ clock = 2
    /\ wk[w].task \notin DOMAIN store
    /\ old = {}

\* C28: a worker that holds a message to process has run the sweep in the
\* same invocation, before process_task: the step that hands it the message
\* is the one that applies cleanup_old_files (nothing old is left when no
\* prefix failed, only old objects are gone otherwise); and whether the sweep
\* failed or not, process_task can start
C28_SweepFirstAndNotBlocking ==
  /\ [](\A w \in Workers :
          wk[w].pc = "start" =>
            /\ wk[w].sweep \in {"ok", "failed"}
            /\ pend[w] = <<>> => ENABLED Begin(w, TRUE))
  /\ [][\A w \in Workers :
          (wk[w].pc \in {"idle", "done"} /\ wk'[w].pc = "start") =>
            /\ wk'[w].sweep \in {"ok", "failed"}
            /\ wk'[w].sweep = "ok" => (old # {} => old' = {})
            /\ wk'[w].sweep = "failed" => (old' # {} /\ old' \subseteq old)
            /\ objs \ old \subseteq objs' /\ objs' \subseteq objs
            /\ DOMAIN store' \subseteq DOMAIN store]_vars

\* an invocation whose sweep failed for some prefix holds its message and is
\* about to run process_task; an old object is still in the bucket
C28_Witness ==
  \E w \in Workers :
    /\ wk[w].pc = "start" /\ wk[w].sweep = "failed"
    /\ pend[w] = <<>>
    /\ old # {}
    /\ wk[w].task \in DOMAIN msgs

\* C29 as stated: once the record of a task is gone (deleted on request or
\* swept), no write of a worker brings it back: the only step after which a
\* missing record exists is the submission that creates it
C29_DeletedRecordNeverRecreated ==
  [][\A t \in TaskIds :
       (t \notin DOMAIN store /\ t \in DOMAIN store')
         => (req' # <<>> /\ req'[1].op = "submit")]_vars

\* C30: every response whose status code is 400 or above (missing field,
\* invalid link, missing task_id, unsubstituted path parameter, unknown task,
\* missing artifact, unknown route, failed save or send, caught exception)
\* has an error entry in its JSON body: the response of the last request,
\* and the one every read route would give in this state for every task_id,
\* outcome of the listing and raising handler
C30_ErrorResponsesCarryError ==
  /\ resp # <<>> => (resp[1].statusCode >= 400 => resp[1].error # None)
  /\ \A route \in Routes, task_id \in GetIds, listOk \in BOOLEAN, raises \in BOOLEAN :
       LET r == HandleApiGatewayRequest(route, task_id,
                                        GetTasksFromStorage(listOk, {}), raises)
       IN r.statusCode >= 400 => r.error # None

\* a request for a method and path that no route matches was answered 404
\* with the error Not found
C30_Witness ==
  /\ resp # <<>>
  /\ resp[1].op = "unknown"
  /\ resp[1].statusCode = 404
  /\ resp[1].error = "Not found"

\* C40: when an invocation has returned success for a task and deleted its
\* message, the record of the task, if it exists, has status completed and
\* progress 100
C40_AckedSuccessIsCompleted ==
  \A w \in Workers :
    (wk[w].pc = "done" /\ wk[w].ret /\ wk[w].deleted /\ wk[w].task \notin DOMAIN msgs
       /\ wk[w].task \in DOMAIN store)
      => (store[wk[w].task].status = "completed"
          /\ store[wk[w].task].progress = ProgressCompleted)

\* w has returned from a run of task t and holds no pending update
Finished(w, t) == wk[w].pc = "done" /\ wk[w].task = t /\ pend[w] = <<>>

\* C39: when two invocations that received the same message in overlapping
\* runs have both returned, and no further run of the task is under way, the
\* stored status of the task is completed or failed, whatever the order of
\* their reads and writes of the record
C39_OverlappingRunsEndTerminal ==
  \A t \in DOMAIN store :
    \A v \in DOMAIN wk, w \in DOMAIN wk :
      (/\ v # w /\ Finished(v, t) /\ Finished(w, t)
       /\ \A u \in DOMAIN wk : InRun(u) => wk[u].task # t)
        => Terminal(store[t].status)

\* two runs of the task have both returned success: the second received the
\* message before the first deleted it, so the runs overlapped
C39_Witness ==
  \E v \in DOMAIN wk, w \in DOMAIN wk :
    /\ v # w
    /\ \E t \in DOMAIN store : Finished(v, t) /\ Finished(w, t)
    /\ wk[v].ret /\ wk[w].ret

\* C34: for a non-empty transcript process_text_with_gpt returns a non-empty
\* abstract whatever the text-generation call does (answer, missing key,
\* non-200, malformed response, exception); the run that summarises goes on
\* to the PDF stage with that abstract and issues no failed update
C34_SummarisationFallsBack ==
  /\ [](\A outcome \in GptOutcomes : Truthy(ProcessTextWithGpt("text", outcome)))
  /\ [](\A w \in Workers : wk[w].pc = "pdf" => Truthy(wk[w].abstract))
  /\ [][\A w \in Workers :
          (wk[w].pc = "summarize" /\ wk'[w].pc # "summarize") =>
            /\ Truthy(wk[w].transcription)
            /\ wk'[w].pc = "pdf"
            /\ Truthy(wk'[w].abstract)
            /\ pend'[w] # <<>> => pend'[w][1].status = "processing"]_vars

\* the text-generation call failed and the run is at the PDF stage with the
\* fallback outline as its abstract
C34_Witness ==
  \E w \in Workers :
    /\ wk[w].pc = "pdf"
    /\ Truthy(wk[w].transcription)
    /\ wk[w].abstract = "fallback outline"

\* w's run has uploaded the abstract, and generate_pdf_notes or
\* save_pdf_to_storage raised: the run is at its last update without a pdf_url
PdfFailed(w) ==
  /\ wk[w].pc = "ret" /\ wk[w].ret
  /\ TruthyUrl(wk[w].abstract_url)
  /\ wk[w].pdf_url = NoUrl

\* C35 as stated: the record the last update of such a run leaves has status
\* completed, holds mp3_url, transcription and abstract_url, and holds no
\* pdf_url
C35_PdfFailureLeavesNoPdfUrl ==
  [][\A w \in Workers :
       (PdfFailed(w) /\ Persists(w)) =>
         /\ store'[wk[w].task].status = "completed"
         /\ TruthyUrl(store'[wk[w].task].mp3_url)
         /\ Truthy(store'[wk[w].task].transcription)
         /\ TruthyUrl(store'[wk[w].task].abstract_url)
         /\ ~TruthyUrl(store'[wk[w].task].pdf_url)]_vars

\* C35 amended: the last update of such a run is (completed, 100) and carries
\* mp3_url, transcription and abstract_url but no pdf_url; the record it
\* leaves has status completed, these three fields as the run produced them,
\* and pdf_url as it was before the run: absent, unless an earlier run of the
\* task stored one
C35_PdfFailureSkipped ==
  /\ [](\A w \in Workers :
          (PdfFailed(w) /\ pend[w] # <<>>) =>
            /\ pend[w][1].status = "completed"
            /\ pend[w][1].progress = ProgressCompleted
            /\ {"mp3_url", "transcription", "abstract_url"} \subseteq pend[w][1].result.keys
            /\ "pdf_url" \notin pend[w][1].result.keys)
  /\ [][\A w \in Workers :
          (PdfFailed(w) /\ Persists(w)) =>
            /\ store'[wk[w].task].status = "completed"
            /\ store'[wk[w].task].progress = ProgressCompleted
            /\ store'[wk[w].task].mp3_url = wk[w].mp3_url
            /\ store'[wk[w].task].transcription = wk[w].transcription
            /\ store'[wk[w].task].abstract_url = wk[w].abstract_url
            /\ store'[wk[w].task].pdf_url = pend[w][1].task_data.pdf_url
            /\ clock = 2 => store'[wk[w].task].pdf_url = AbsentUrl]_vars

\* the first run of a task has persisted its last update after a failed PDF
\* stage: the record is completed with the abstract and without a PDF
C35_Witness ==
  \E w \in Workers :
    /\ PdfFailed(w) /\ pend[w] = <<>> /\ wk[w].written
    /\ wk[w].task \in DOMAIN store
    /\ store[wk[w].task].status = "completed"
    /\ TruthyUrl(store[wk[w].task].abstract_url)
    /\ store[wk[w].task].pdf_url = AbsentUrl

\* the locals of process_task hold nothing of an earlier run
FreshLocals(w) ==
  /\ wk[w].video_path = None /\ wk[w].mp3_path = None /\ wk[w].mp3_url = NoUrl
  /\ wk[w].transcription = None /\ wk[w].abstract = None
  /\ wk[w].abstract_url = NoUrl /\ wk[w].pdf_url = NoUrl

\* C33: a delivery starts process_task at the download stage with nothing
\* taken over from the record, whatever the record holds (terminal status,
\* progress, result fields) and whether it exists: the run goes from its
\* first status update to download_video, and the download, the conversion
\* and the upload can take place in every state the run is at them
C33_RedeliveryRerunsPipeline ==
  /\ [](\A w \in Workers :
          /\ wk[w].pc \in {"start", "download"} => FreshLocals(w)
          /\ pend[w] = <<>> =>
               /\ wk[w].pc = "start" => ENABLED Begin(w, TRUE)
               /\ wk[w].pc = "download" => ENABLED DownloadVideo(w, "video_path", TRUE)
               /\ wk[w].pc = "convert" => ENABLED ConvertToMp3(w, "mp3_path", TRUE)
               /\ wk[w].pc = "upload" => ENABLED UploadMp3(w, TRUE, TRUE))
  /\ [][\A w \in Workers :
          (wk[w].pc = "start" /\ wk'[w].pc # "start") => wk'[w].pc = "download"]_vars

\* the message of a task that a first run completed, PDF included, was
\* delivered again, and the second run has downloaded the video anew
C33_Witness ==
  \E w \in Workers :
    /\ wk[w].pc = "convert" /\ Truthy(wk[w].video_path)
    /\ wk[w].task \in DOMAIN store
    /\ TruthyUrl(store[wk[w].task].pdf_url)
    /\ store[wk[w].task].processed_at # NoTime

\* the stage a run can enter from another
StageOrder ==
  {<<"start", "download">>, <<"download", "convert">>, <<"convert", "upload">>,
   <<"upload", "transcribe">>, <<"transcribe", "summarize">>,
   <<"summarize", "pdf">>, <<"pdf", "ret">>,
   <<"transcribe", "finalize">>, <<"finalize", "ret">>,
   <<"download", "ret">>, <<"convert", "ret">>, <<"upload", "ret">>,
   <<"transcribe", "ret">>, <<"summarize", "ret">>, <<"ret", "done">>}

\* the progress announced for the stage a run is at
Announced(pc) ==
  IF pc = "download" THEN 10 ELSE IF pc = "convert" THEN 40
  ELSE IF pc = "upload" THEN 80 ELSE IF pc = "transcribe" THEN 85
  ELSE IF pc = "summarize" THEN 92 ELSE 95

\* C32: a run passes through download, transcode, upload, transcribe,
\* summarise, render-PDF and the final update in this order, leaving the
\* order only to end; it moves on only when the status update of the previous
\* step has returned; the update announcing a stage (10, 40, 80, 85, 92, 95)
\* precedes the stage, and so does its write when the record can be read and
\* written; the last update of a successful run carries 100; summarise is
\* entered only with a non-empty transcript and render-PDF only with an
\* abstract text
C32_StagesInOrder ==
  /\ [][\A w \in Workers :
          (InRun(w) /\ wk'[w].pc # wk[w].pc) =>
            /\ <<wk[w].pc, wk'[w].pc>> \in StageOrder
            /\ pend[w] = <<>>]_vars
  /\ [](\A w \in Workers :
          /\ wk[w].pc = "summarize" => Truthy(wk[w].transcription)
          /\ wk[w].pc = "pdf" => (Truthy(wk[w].transcription) /\ Truthy(wk[w].abstract))
          /\ wk[w].pc \in {"download", "convert", "upload", "transcribe", "summarize", "pdf"} =>
               /\ pend[w] # <<>> =>
                    (pend[w][1].status = "processing"
                       /\ pend[w][1].progress = Announced(wk[w].pc))
               /\ Settled(w) =>
                    (store[wk[w].task].status = "processing"
                       /\ store[wk[w].task].progress = Announced(wk[w].pc))
          /\ (wk[w].pc = "ret" /\ wk[w].ret) =>
               /\ pend[w] # <<>> => pend[w][1].progress = 100
               /\ Settled(w) => store[wk[w].task].progress = 100)

\* the run is about to render the PDF: the transcript and the abstract
\* exist and the record shows progress 95
C32_Witness ==
  \E w \in Workers :
    /\ wk[w].pc = "pdf" /\ Settled(w)
    /\ Truthy(wk[w].abstract)
    /\ store[wk[w].task].progress = 95
    /\ wk[w].last = 95

\* C31: an invocation runs process_task for one task: a polling invocation
\* receives one message; an invocation of the trigger works on the task of
\* the first message of its batch only; while it runs, the records of all
\* other tasks, those of the rest of the batch included, stay as they are;
\* and after process_task has returned the invocation ends, a further run
\* starting only with a further invocation
C31_OneTaskPerInvocation ==
  /\ [](\A w \in Workers :
          (InRun(w) /\ wk[w].mode = "trigger") =>
            (wk[w].batch # <<>> /\ wk[w].task = msgs[wk[w].batch[1]].task_id))
  /\ [][\A t \in DOMAIN store :
          (t \notin DOMAIN store' \/ store'[t] # store[t]) =>
            \E w \in Workers : InRun(w) /\ wk[w].task = t]_vars
  /\ [][\A w \in Workers :
          /\ (InRun(w) /\ wk'[w].pc # "done") => wk'[w].task = wk[w].task
          /\ (wk[w].pc = "ret" /\ wk'[w].pc # "ret") => wk'[w].pc = "done"
          /\ (wk[w].pc # "start" /\ wk'[w].pc = "start") =>
               /\ wk[w].pc \in {"idle", "done"}
               /\ wk'[w].tick # wk[w].tick
               /\ wk'[w].mode = "poll" => Cardinality(hidden' \ hidden) = 1]_vars

\* an invocation of the trigger with a batch of two messages has completed
\* the task of the first; the record of the second is as it was submitted
C31_Witness ==
  \E w \in Workers :
    /\ wk[w].pc = "ret" /\ wk[w].mode = "trigger" /\ Len(wk[w].batch) = 2
    /\ Settled(w)
    /\ store[wk[w].task].status = "completed"
    /\ wk[w].batch[2] \in DOMAIN store
    /\ store[wk[w].batch[2]] = msgs[wk[w].batch[2]]

\* C36: the polling loop of the transcription makes at most 360 status
\* checks, a check with a status other than 200 counting as one; a check
\* that reports the operation done is the last one; the loop is left with no
\* check reporting done only after the 360th, and then by the timeout error
\* (process_task goes on as after a failed transcription); and a run that
\* has started always comes to its end
C36_PollingLoopTerminates ==
  /\ [](\A w \in Workers : wk[w].attempt <= MaxAttempts)
  /\ [][\A w \in Workers :
          /\ (wk[w].pc = "transcribe" /\ wk'[w].attempt # wk[w].attempt) =>
               wk'[w].attempt = wk[w].attempt + 1
          /\ (wk[w].pc = "transcribe" /\ wk[w].poll \in {"empty", "text", "error"}) =>
               wk'[w].attempt = wk[w].attempt
          /\ (wk[w].pc = "transcribe" /\ wk[w].poll \in {"empty", "text"}
                /\ wk'[w] # wk[w]) =>
               wk'[w].transcription = PollOutcome(wk[w].poll)
          /\ (wk[w].pc = "transcribe" /\ wk[w].poll = "polling"
                /\ wk'[w].pc # "transcribe") =>
               (wk[w].attempt = MaxAttempts /\ wk'[w].pc = "finalize")]_vars
  /\ \A w \in Workers : InRun(w) ~> (wk[w].pc = "done")

\* no check of the 360 reported the operation done and the run went on
\* after the timeout error
C36_Witness ==
  \E w \in Workers :
    /\ wk[w].pc = "ret" /\ wk[w].poll = "polling" /\ wk[w].attempt = MaxAttempts
    /\ wk[w].ret

\* chunk has a first alternative with non-empty text
HasFirstText(chunk) ==
  /\ "alternatives" \in DOMAIN chunk
  /\ chunk.alternatives # <<>>
  /\ "text" \in DOMAIN chunk.alternatives[1]
  /\ chunk.alternatives[1].text # ""

\* the first n of the kept chunks' first texts, one space between two
RECURSIVE SpacedTexts(_, _)
SpacedTexts(kept, n) ==
  IF n = 0 THEN ""
  ELSE IF n = 1 THEN kept[1].alternatives[1].text
  ELSE SpacedTexts(kept, n - 1) \o " " \o kept[n].alternatives[1].text

\* C37: the text returned for a done operation is the first alternative's
\* text of every chunk that has one with non-empty text, in chunk order with
\* one space between two; the other chunks add nothing and a result without
\* chunks gives the empty string
C37_TextIsSpacedFirstAlternatives ==
  "transcription" \in DOMAIN resp =>
    LET chunks == IF "chunks" \in DOMAIN req.response_data
                    THEN req.response_data.chunks ELSE <<>>
        kept == SelectSeq(chunks, HasFirstText)
    IN /\ resp.transcription = SpacedTexts(kept, Len(kept))
       /\ chunks = <<>> => resp.transcription = ""

\* three chunks, one of them without text, gave the two texts with a space
C37_Witness ==
  /\ "transcription" \in DOMAIN resp
  /\ "chunks" \in DOMAIN req.response_data
  /\ Len(req.response_data.chunks) = 3
  /\ \E i \in 1..3 : ~HasFirstText(req.response_data.chunks[i])
  /\ resp.transcription = "a b c"

\* the kind the claim gives a stripped line
StatedKind(line) ==
  IF line = <<>> THEN "blank"
  ELSE IF line[1] = "#" THEN "heading"
  ELSE IF line[1] \in {"-", "*"} THEN "bullet"
  ELSE "body"

\* C38 as stated: a line starting with # is rendered as a heading, a line
\* starting with - or * as a bullet, and no other line as a heading
C38_LinesClassifiedAsStated ==
  "story" \in DOMAIN resp =>
    LET lines == Split(req.processed_text, <<>>)
    IN \A i \in 1..Len(lines) :
         LET line == StripLine(lines[i])
         IN /\ StatedKind(line) = "heading" <=>
                 \E j \in 1..Len(resp.story) :
                   /\ resp.story[j].style = "Heading1"
                   /\ resp.story[j].text = HtmlEscape(line)
            /\ StatedKind(line) = "bullet" =>
                 \E j \in 1..Len(resp.story) :
                   resp.story[j].style \notin {"Normal", "Heading1", "Spacer"}
            /\ StatedKind(line) = "body" =>
                 \E j \in 1..Len(resp.story) : resp.story[j].style = "Normal"
====
